---- MODULE Spec2Model ----
(***************************************************************************)
(* BudgetFlow: polling cycle, per-customer worker, per-document pipeline,  *)
(* Gemini processor and hash registry.                                     *)
(*                                                                         *)
(* Modelled revision: src/src/orchestrator/processor.py (thread-safe       *)
(* orchestrator), src/src/gemini/processor.py, src/src/utils/              *)
(* hash_registry.py, src/src/utils/retry.py.  The Drive, Sheets and Gemini *)
(* services are external collaborators: each call either succeeds or       *)
(* raises (after its own retries), chosen nondeterministically within a    *)
(* fault budget.                                                           *)
(***************************************************************************)
EXTENDS Integers, Sequences, FiniteSets, TLC

\* ------------------------------------------------------------------ bounds
MaxFiles == 2
MaxCycles == 2
MaxFaults == 1
MaxBatch == 3
MaxDeltaItems == 2
MaxRetries == 3
MaxMarks == 3
MaxClock == 2
MaxIterations == 3
WaitSeconds == 2
MaxPolls == 2

\* -------------------------------------------------------- program constants
\* Config.max_concurrent_customers (default)
max_concurrent_customers == 3
\* GeminiProcessor.process_pdf: @retry_with_backoff(max_retries=3)
gemini_max_retries == 3

\* ------------------------------------------------------------- value sets
Customers == {"X", "Y"}
\* Drive folder ids of the customer folders under the root folder.
FolderIds == {"d1", "d2"}
Files == 1..MaxFiles
Names == {"a.pdf", "b.pdf"}
\* Document contents (byte strings): cA holds two transactions, cB holds none.
Contents == {"cA", "cB"}
Folders == {"inbox", "Archive", "Error", "Duplicates"}
NoHash == "none"

VARIABLES
    folders,    \* Drive: listing of the folders under the root, [id, name] each
    drive,      \* Drive: file id -> [folder, name, content, loc]; loc "absent" = not uploaded
    budget,     \* Sheets: customer -> Budget sheet total
    raw,        \* Sheets: customer -> number of Raw Data rows
    pubBudget,  \* history: file id -> times its transactions were added to a Budget sheet
    pubRaw,     \* history: file id -> times its transactions were appended to Raw Data
    ledger,     \* processed_files table, rows in insertion order
    phase,      \* "idle" | "running": position of run_polling_cycle
    cycles,     \* polling cycles started
    customers,  \* customers discovered by the running cycle
    task,       \* per submitted customer task: worker-local state
    results,    \* results list of the running / last cycle
    faults,     \* collaborator failures injected so far
    marks,      \* history: (customer, hash, status) -> mark_processed calls made
    succeeded,  \* history: (customer, hash) keys of pipeline runs that returned success
    scratch,    \* local temp storage: paths (customer id, file name) that exist on disk
    batch,      \* aggregation: the list of transactions handed to an aggregator
    aggregated, \* aggregation: the AggregatedData it returned, or the error it raised
    cells,      \* Sheets: Budget sheet of one report, category row -> month column -> cell
    upd,        \* position and locals of one SheetsGenerator.update_budget call
    rw,         \* position and locals of one retry_with_backoff wrapper call
    svc,        \* main.py: position of the polling loop and the shutdown flag
    reg         \* registry session: processed_at per row, calls made, last query result

vars == <<folders, drive, budget, raw, pubBudget, pubRaw, ledger, phase, cycles,
          customers, task, results, faults, marks, succeeded, scratch, batch, aggregated,
          cells, upd, rw, svc, reg>>

cyc == <<folders, phase, cycles, customers, results>>
sheets == <<budget, raw, pubBudget, pubRaw>>
hist == <<marks, succeeded>>
agg == <<batch, aggregated>>
aux == <<cells, upd, rw, svc, reg>>

\* --------------------------------------------------------------- helpers
RECURSIVE SumAmounts(_)
SumAmounts(s) == IF s = <<>> THEN 0 ELSE Head(s).amount + SumAmounts(Tail(s))

SrcSet(s) == {s[i].src : i \in DOMAIN s}

\* HashRegistry.calculate_hash: SHA-256 digest of the downloaded bytes.
calculate_hash(content) ==
    CASE content = "cA" -> "hA"
      [] content = "cB" -> "hB"

\* VisionCategorizer.extract_transactions_from_pdf on a readable document:
\* the transactions the document holds, tagged with their source file.
extract_transactions_from_pdf(f, content) ==
    IF content = "cA"
    THEN << [src |-> f, amount |-> -100], [src |-> f, amount |-> -50] >>
    ELSE << >>

\* Mutant: the empty-list check is missing.
no_transactions_unchecked(txns) == FALSE

\* GeminiProcessor.process_pdf: "if not transactions: raise PDFError(...)"
no_transactions(txns) == txns = <<>>

\* ------------------------------------------------------------ aggregation
\* Transactions handed to an aggregator: category, month of the date, amount.
Categories == {"food", "rent", "Other"}
Months == {5, 6}
Amounts == {-100, -20, -35}
Transactions == [category : Categories, month : Months, amount : Amounts]
Batches == UNION {[1..n -> Transactions] : n \in 0..MaxBatch}

NotAggregated == [status |-> "none"]

\* Mutant: the month of the first transaction is taken.
most_common_month_first(transactions) == transactions[1].month

\* Counter(txn.date.month for txn in transactions).most_common(1)[0][0]:
\* the month with the highest count, the first one counted on a tie.
most_common_month(transactions) ==
    LET count(m) == Cardinality({i \in DOMAIN transactions : transactions[i].month = m})
        best == {i \in DOMAIN transactions :
                    \A j \in DOMAIN transactions :
                        count(transactions[i].month) >= count(transactions[j].month)}
        first == CHOOSE i \in best : \A j \in best : i <= j
    IN transactions[first].month

\* Mutant: "totals[txn.category] = txn.amount", the last amount is kept.
category_totals_assign(transactions) ==
    [c \in {transactions[i].category : i \in DOMAIN transactions} |->
        LET of_c == SelectSeq(transactions, LAMBDA txn : txn.category = c)
        IN of_c[Len(of_c)].amount]

\* "for txn in transactions: totals[txn.category] += txn.amount"
category_totals(transactions) ==
    [c \in {transactions[i].category : i \in DOMAIN transactions} |->
        SumAmounts(SelectSeq(transactions, LAMBDA txn : txn.category = c))]

\* Aggregator.aggregate(transactions, customer_id)
aggregate(transactions, customer_id) ==
    IF transactions = <<>>
    THEN [status |-> "ValidationError"]
    ELSE [status       |-> "ok",
          customer_id  |-> customer_id,
          month        |-> most_common_month(transactions),
          totals       |-> category_totals(transactions),
          transactions |-> transactions]

\* ProcessingOrchestrator._aggregate_transactions(customer_id, transactions);
\* now_month is datetime.now().month.
aggregate_transactions(customer_id, transactions, now_month) ==
    IF transactions = <<>>
    THEN [status       |-> "ok",
          customer_id  |-> customer_id,
          month        |-> now_month,
          totals       |-> << >>,
          transactions |-> << >>]
    ELSE [status       |-> "ok",
          customer_id  |-> customer_id,
          month        |-> most_common_month(transactions),
          totals       |-> category_totals(transactions),
          transactions |-> transactions]

\* ------------------------------------------------------------ budget sheet
\* SheetsGenerator.update_budget: @retry_with_backoff(max_retries=3, ...)
sheets_max_retries == 3
drive_max_retries == 9

\* Categories that have a row in the Budget sheet (the rows written from
\* categories.json); the categorizer's fallback "Other" has none.
SheetRows == {"food", "rent"}

EmptyCell == [kind |-> "empty"]
NumberCell(n) == [kind |-> "number", value |-> n]

\* _initialize_budget_sheet: every month cell of a category row starts at 0.
InitCells == [c \in SheetRows |-> [m \in Months |-> NumberCell(0)]]

\* SheetsGenerator._parse_amount: an empty cell reads as 0.
parse_amount(cell) == IF cell.kind = "number" THEN cell.value ELSE 0

\* "for category, amount in aggregated.totals.items()": the categories in
\* the order in which the aggregator first met them.
RECURSIVE totals_items(_, _)
totals_items(transactions, seen) ==
    IF transactions = <<>> THEN <<>>
    ELSE LET c == Head(transactions).category
         IN IF c \in seen
            THEN totals_items(Tail(transactions), seen)
            ELSE <<c>> \o totals_items(Tail(transactions), seen \cup {c})

UpdIdle == [pc |-> "idle", attempt |-> 0, todo |-> <<>>, existing |-> 0, before |-> InitCells]

\* ----------------------------------------------------- retry_with_backoff
\* Exceptions a wrapped function raises: class and, for HttpError, the
\* response status (0 otherwise).
Err(class, status) == [class |-> class, status |-> status]
NoErr == Err("none", 0)

\* What the remote call inside a wrapped function fails with.
RemoteErrors == {Err("HttpError", 404), Err("HttpError", 429), Err("HttpError", 500),
                 Err("ConnectionError", 0), Err("ValueError", 0)}

\* retryable_exceptions of the decorated functions.
RETRYABLE_ERRORS == {"ConnectionError", "TimeoutError", "socket.timeout", "SSLError",
                     "HttpError", "OSError"}
DRIVE_RETRYABLE == {"HttpError", "SSLError", "OSError", "ConnectionError", "TimeoutError"}
SHEETS_RETRYABLE == {"RetryableNetworkError", "HttpError"}

\* The error classes a Sheets function turns into RetryableNetworkError:
\* "except HttpError as e: raise RetryableNetworkError" in update_budget and
\* append_raw_data, "except (HttpError, ConnectionError, TimeoutError)" in
\* get_or_create_report.
WRAPS_HTTP == {"HttpError"}
WRAPS_NETWORK == {"HttpError", "ConnectionError", "TimeoutError"}

\* The decorated functions: the Drive and Gemini functions let the remote
\* error through, the Sheets functions wrap it.
Decorated == {[retryable |-> RETRYABLE_ERRORS, wraps |-> {}],
              [retryable |-> DRIVE_RETRYABLE, wraps |-> {}],
              [retryable |-> SHEETS_RETRYABLE, wraps |-> WRAPS_HTTP],
              [retryable |-> SHEETS_RETRYABLE, wraps |-> WRAPS_NETWORK]}

raised_by(remote, wraps) ==
    IF remote.class \in wraps THEN Err("RetryableNetworkError", 0) ELSE remote

\* Mutant: "except Exception", every error is caught for a retry.
is_retryable_any(e, retryable_exceptions) == TRUE

\* "except retryable_exceptions as e"
is_retryable(e, retryable_exceptions) == e.class \in retryable_exceptions

\* "if isinstance(e, HttpError): if e.resp.status < 500 and e.resp.status != 429"
is_client_error(e) == e.class = "HttpError" /\ e.status < 500 /\ e.status # 429

\* Mutant: the attempts end one call earlier.
attempts_exhausted_early(attempt, max_retries) == attempt >= max_retries - 1

\* "if attempt == max_retries: break"
attempts_exhausted(attempt, max_retries) == attempt = max_retries

\* The retry-wrapped function called from the body of a retry-wrapped
\* function: its decorator arguments and its loop variable.
InnerIdle == [max_retries |-> 0, retryable |-> {}, wraps |-> {}, attempt |-> 0]

RwIdle == [pc |-> "idle", max_retries |-> 0, retryable |-> {}, wraps |-> {},
           attempt |-> 0, calls |-> 0, sleeps |-> 0, remote |-> <<>>, errs |-> <<>>,
           out |-> NoErr, remote_calls |-> 0, inner |-> InnerIdle]
\* main(): the handlers are installed, the polling loop is not yet entered.
SvcIdle == [pc |-> "init", shutdown_requested |-> FALSE, cycle_count |-> 0,
            waited |-> 0, outcomes |-> <<>>]

\* Python's None, the default of clear_cache's customer_id parameter.
None == "None"

\* A registry session: no call made, no query answered, nothing cleared.
NoQuery == [customer_id |-> "none", rows |-> <<>>]
RegIdle == [stamps |-> <<>>, calls |-> <<>>, out |-> NoQuery, seq |-> 0,
            cleared |-> [customer_id |-> None, deleted |-> 0]]

AuxInit ==
    /\ cells = InitCells
    /\ upd = UpdIdle
    /\ rw = RwIdle
    /\ svc = SvcIdle
    /\ reg = RegIdle

\* ---------------------------------------------------------- hash registry
ValidStatus == {"success", "error"}

\* FileRecord(customer_id, file_hash, file_name, status): the record the
\* orchestrator and the Gemini processor hand to mark_processed.  Its outcome
\* is stored in the ledger's vocabulary.
FileRecord(customer_id, file_hash, file_name, status) ==
    [customer_id |-> customer_id,
     file_hash   |-> file_hash,
     file_name   |-> file_name,
     status      |-> CASE status \in {"SUCCESS", "success"} -> "success"
                       [] status \in {"FAILED", "error"}    -> "error"
                       [] OTHER -> status]

\* Mutant: the WHERE clause misses customer_id.
is_processed_any_customer(led, customer_id, file_hash) ==
    Cardinality({i \in DOMAIN led : led[i].file_hash = file_hash}) > 0

\* Mutant: "count > 1" instead of "count > 0".
is_processed_gt1(led, customer_id, file_hash) ==
    Cardinality({i \in DOMAIN led : /\ led[i].customer_id = customer_id
                                    /\ led[i].file_hash = file_hash}) > 1

\* SELECT COUNT(*) FROM processed_files WHERE customer_id = ? AND file_hash = ?
is_processed(led, customer_id, file_hash) ==
    Cardinality({i \in DOMAIN led : /\ led[i].customer_id = customer_id
                                    /\ led[i].file_hash = file_hash}) > 0

\* UNIQUE(customer_id, file_hash): would the INSERT raise IntegrityError?
IntegrityError(led, rec) ==
    \E i \in DOMAIN led : /\ led[i].customer_id = rec.customer_id
                          /\ led[i].file_hash = rec.file_hash

\* Mutant: the table has no UNIQUE(customer_id, file_hash) constraint.
mark_processed_no_unique(led, rec) ==
    Append(led, [id          |-> Len(led) + 1,
                 customer_id |-> rec.customer_id,
                 file_hash   |-> rec.file_hash,
                 file_name   |-> rec.file_name,
                 status      |-> rec.status])

\* Mutant: an upsert, the record of an existing key is overwritten.
mark_processed_upsert(led, rec) ==
    IF IntegrityError(led, rec)
    THEN [i \in DOMAIN led |->
            IF led[i].customer_id = rec.customer_id /\ led[i].file_hash = rec.file_hash
            THEN [led[i] EXCEPT !.file_name = rec.file_name, !.status = rec.status]
            ELSE led[i]]
    ELSE Append(led, [id          |-> Len(led) + 1,
                      customer_id |-> rec.customer_id,
                      file_hash   |-> rec.file_hash,
                      file_name   |-> rec.file_name,
                      status      |-> rec.status])

\* mark_processed: INSERT; IntegrityError is caught and logged.
mark_processed(led, rec) ==
    IF IntegrityError(led, rec)
    THEN led
    ELSE Append(led, [id          |-> Len(led) + 1,
                      customer_id |-> rec.customer_id,
                      file_hash   |-> rec.file_hash,
                      file_name   |-> rec.file_name,
                      status      |-> rec.status])

\* mark_processed raises ValueError on a status outside ('success', 'error').
mark_raises(rec) == rec.status \notin ValidStatus

\* "timestamp = datetime.now().isoformat()": readings of the local wall
\* clock, which can repeat a value or step back between two calls.
Clock == 1..MaxClock

\* processed_at of the rows after mark_processed(rec) at clock reading now:
\* a row is added only when the INSERT went through.
stamped(stamps, led, rec, now) ==
    IF IntegrityError(led, rec) THEN stamps ELSE Append(stamps, now)

\* "ORDER BY processed_at DESC": rows with equal processed_at come in any order.
ordered_by_processed_at(stamps, s) ==
    \A j, k \in DOMAIN s : j < k => stamps[s[j]] >= stamps[s[k]]

\* get_customer_history(customer_id): the lists the SELECT can return,
\* one ProcessedFile per row of the customer.
get_customer_history(led, stamps, customer_id) ==
    LET ids == {i \in DOMAIN led : led[i].customer_id = customer_id}
        n == Cardinality(ids)
        orders == {s \in [1..n -> ids] :
                     /\ \A j, k \in 1..n : j # k => s[j] # s[k]
                     /\ ordered_by_processed_at(stamps, s)}
    IN {[j \in 1..n |-> [id           |-> led[s[j]].id,
                         customer_id  |-> led[s[j]].customer_id,
                         file_hash    |-> led[s[j]].file_hash,
                         file_name    |-> led[s[j]].file_name,
                         processed_at |-> stamps[s[j]],
                         status       |-> led[s[j]].status]] : s \in orders}

\* "id INTEGER PRIMARY KEY AUTOINCREMENT": the id of an inserted row is one
\* more than the largest id the table ever held (seq), deleted rows included.
autoincrement(rows, led, seq) ==
    IF Len(rows) > Len(led) THEN [rows EXCEPT ![Len(rows)].id = seq + 1] ELSE rows

\* The rows of s at the positions ids, in their order.
rows_at(s, ids) ==
    LET n == Cardinality(ids)
        f == CHOOSE g \in [1..n -> ids] : \A j, k \in 1..n : j < k => g[j] < g[k]
    IN [j \in 1..n |-> s[f[j]]]

\* clear_cache(customer_id): "if customer_id:" DELETE ... WHERE customer_id = ?
\* else DELETE FROM processed_files; None and the empty string are both
\* falsy.  kept: the positions of the rows that stay; deleted: cursor.rowcount.
clear_cache(led, customer_id) ==
    LET gone == IF customer_id # None /\ customer_id # ""
                THEN {i \in DOMAIN led : led[i].customer_id = customer_id}
                ELSE DOMAIN led
    IN [kept |-> DOMAIN led \ gone, deleted |-> Cardinality(gone)]

HasSuccess(led, c, h) ==
    \E i \in DOMAIN led : /\ led[i].customer_id = c
                          /\ led[i].file_hash = h
                          /\ led[i].status = "success"

\* DrivePoller.discover_customers: one Customer(id=folder name,
\* folder_id=folder id) per folder under the root, in listing order.
discover_customers(fs) ==
    LET kept == SelectSeq(fs, LAMBDA folder : folder.name # "Outputs")
    IN [i \in DOMAIN kept |-> [id |-> kept[i].name, folder_id |-> kept[i].id]]

\* Name of the folder with id d in the listing.
FolderName(d) == folders[CHOOSE i \in DOMAIN folders : folders[i].id = d].name

\* -------------------------------------------------------------- task state
Tasks == 1..Cardinality(FolderIds)

IdleTask ==
    [pc |-> "none", cust |-> "X", folder |-> "d1", files |-> <<>>, idx |-> 1,
     files_processed |-> 0, files_failed |-> 0, transactions_extracted |-> 0,
     all_new |-> <<>>, report |-> FALSE,
     local |-> FALSE, hash |-> NoHash, attempt |-> 0, txns |-> <<>>,
     prior |-> FALSE, empty |-> FALSE, dup |-> FALSE, exc |-> "none", polls |-> 0]

Init ==
    /\ folders \in {<< [id |-> "d1", name |-> "X"], [id |-> "d2", name |-> "Y"] >>,
                    << [id |-> "d1", name |-> "X"], [id |-> "d2", name |-> "X"] >>}
    /\ drive = [f \in Files |-> [folder |-> "d1", name |-> "a.pdf", content |-> "cA", loc |-> "absent"]]
    /\ budget = [c \in Customers |-> 0]
    /\ raw = [c \in Customers |-> 0]
    /\ pubBudget = [f \in Files |-> 0]
    /\ pubRaw = [f \in Files |-> 0]
    /\ ledger = <<>>
    /\ phase = "idle"
    /\ cycles = 0
    /\ customers = <<>>
    /\ task = [t \in DOMAIN folders |-> IdleTask]
    /\ results = <<>>
    /\ faults = 0
    /\ marks = [k \in Customers \X {"hA", "hB"} \X ValidStatus |-> 0]
    /\ succeeded = {}
    /\ scratch = {}
    /\ batch = <<>>
    /\ aggregated = NotAggregated
    /\ AuxInit

CanFail == faults < MaxFaults

Fault == CanFail /\ faults' = faults + 1

Cur(t) == task[t].files[task[t].idx]
CurHash(t) == calculate_hash(drive[Cur(t)].content)

\* DrivePoller.download_pdf: local_path = temp_dir / customer_id / file name.
LocalPath(t) == <<task[t].cust, drive[Cur(t)].name>>

\* finally clause of _process_single_file:
\* "if local_path and local_path.exists(): local_path.unlink()".
Unlinked(t) == IF task[t].local THEN scratch \ {LocalPath(t)} ELSE scratch

InPipeline(t) ==
    task[t].pc \in {"s_download", "s_check", "s_dup", "g_download", "g_check", "g_dup",
                    "g_extract", "g_report", "g_budget", "g_raw", "g_archive", "g_mark",
                    "s_archive", "s_mark", "h_move", "h_mark"}

Running(t) == task[t].pc \notin {"none", "queued", "returned", "raised", "collected"}

\* Sorted sequence of a finite set of file ids (Drive listing order).
RECURSIVE SeqOf(_)
SeqOf(S) == IF S = {} THEN <<>>
            ELSE LET m == CHOOSE x \in S : \A y \in S : x <= y
                 IN <<m>> \o SeqOf(S \ {m})

\* ------------------------------------------------------------ environment
\* A user drops a PDF into a customer's folder (between cycles).
Upload(f, d, n, k) ==
    /\ phase = "idle"
    /\ cycles < MaxCycles
    /\ drive[f].loc = "absent"
    /\ \A g \in Files : g < f => drive[g].loc # "absent"
    /\ f = 1 => n = "a.pdf"
    /\ drive' = [drive EXCEPT ![f] = [folder |-> d, name |-> n, content |-> k, loc |-> "inbox"]]
    /\ UNCHANGED <<folders, budget, raw, pubBudget, pubRaw, ledger, phase, cycles,
                   customers, task, results, faults, marks, succeeded, scratch, agg, aux>>

\* ------------------------------------------------------ run_polling_cycle
\* discover_customers succeeded: one task per customer is submitted.
StartCycle ==
    /\ phase = "idle"
    /\ cycles < MaxCycles
    /\ phase' = "running"
    /\ cycles' = cycles + 1
    /\ customers' = discover_customers(folders)
    /\ results' = <<>>
    /\ task' = [t \in DOMAIN discover_customers(folders) |->
                    [IdleTask EXCEPT !.pc = "queued",
                                     !.cust = discover_customers(folders)[t].id,
                                     !.folder = discover_customers(folders)[t].folder_id]]
    /\ UNCHANGED <<folders, drive, budget, raw, pubBudget, pubRaw, ledger, faults, hist,
                   scratch, agg, aux>>

\* Mutant: the discovery failure is logged but the cycle goes on to submit
\* tasks for the folders it knows.
DiscoverFails_submits ==
    /\ phase = "idle"
    /\ cycles < MaxCycles
    /\ Fault
    /\ phase' = "running"
    /\ cycles' = cycles + 1
    /\ customers' = discover_customers(folders)
    /\ results' = <<>>
    /\ task' = [t \in DOMAIN discover_customers(folders) |->
                    [IdleTask EXCEPT !.pc = "queued",
                                     !.cust = discover_customers(folders)[t].id,
                                     !.folder = discover_customers(folders)[t].folder_id]]
    /\ UNCHANGED <<folders, drive, budget, raw, pubBudget, pubRaw, ledger, hist,
                   scratch, agg, aux>>

\* discover_customers raised: logged, the cycle returns [].
DiscoverFails ==
    /\ phase = "idle"
    /\ cycles < MaxCycles
    /\ Fault
    /\ cycles' = cycles + 1
    /\ customers' = <<>>
    /\ results' = <<>>
    /\ task' = [t \in DOMAIN task |-> IdleTask]
    /\ UNCHANGED <<folders, drive, budget, raw, pubBudget, pubRaw, ledger, phase, hist,
                   scratch, agg, aux>>

\* Mutant: the pool has no bound.
worker_free_unbounded(running) == TRUE

\* ThreadPoolExecutor(max_workers=max_concurrent_customers): is one of the
\* pool's workers free when `running` tasks are being run?
worker_free(running) == running < max_concurrent_customers

\* ThreadPoolExecutor: a queued task starts when a worker is free (FIFO).
StartWorker(t) ==
    /\ phase = "running"
    /\ task[t].pc = "queued"
    /\ \A u \in DOMAIN task : u < t => task[u].pc # "queued"
    /\ worker_free(Cardinality({u \in DOMAIN task : Running(u)}))
    /\ task' = [task EXCEPT ![t].pc = "clients"]
    /\ UNCHANGED <<folders, drive, budget, raw, pubBudget, pubRaw, ledger, phase, cycles,
                   customers, results, faults, hist, scratch, agg, aux>>

\* Mutant: a task's exception is only logged, no result is appended.
collect_result_drop(res, T) ==
    IF T.pc = "returned"
    THEN Append(res, [customer_id |-> T.cust,
                      files_processed |-> T.files_processed,
                      files_failed |-> T.files_failed,
                      transactions_extracted |-> T.transactions_extracted])
    ELSE res

\* Body of "for future in as_completed(...)": result = future.result();
\* results.append(result), or on an exception
\* results.append(ProcessingResult(customer.id, files_failed=1)).
collect_result(res, T) ==
    Append(res,
           IF T.pc = "returned"
           THEN [customer_id |-> T.cust,
                 files_processed |-> T.files_processed,
                 files_failed |-> T.files_failed,
                 transactions_extracted |-> T.transactions_extracted]
           ELSE [customer_id |-> T.cust,
                 files_processed |-> 0, files_failed |-> 1,
                 transactions_extracted |-> 0])

\* as_completed: the main thread takes a finished future and appends its
\* result, or a files_failed=1 result when the task raised.
Collect(t) ==
    /\ phase = "running"
    /\ task[t].pc \in {"returned", "raised"}
    /\ results' = collect_result(results, task[t])
    /\ task' = [task EXCEPT ![t].pc = "collected"]
    /\ UNCHANGED <<folders, drive, budget, raw, pubBudget, pubRaw, ledger, phase, cycles,
                   customers, faults, hist, scratch, agg, aux>>

\* All futures collected: run_polling_cycle returns results.
EndCycle ==
    /\ phase = "running"
    /\ \A t \in DOMAIN task : task[t].pc = "collected"
    /\ phase' = "idle"
    /\ UNCHANGED <<folders, drive, budget, raw, pubBudget, pubRaw, ledger, cycles,
                   customers, task, results, faults, hist, scratch, agg, aux>>


\* History of mark_processed calls, after one more call with record rec.
Marked(rec) ==
    [marks EXCEPT ![<<rec.customer_id, rec.file_hash, rec.status>>] = @ + 1]

\* ------------------------------------------- process_customer_thread_safe
\* _create_thread_drive_client / _create_thread_sheets_client run before the
\* try block: a failure there escapes the task.
CreateClients(t) ==
    /\ task[t].pc = "clients"
    /\ \/ /\ task' = [task EXCEPT ![t].pc = "ensure"]
          /\ UNCHANGED faults
       \/ /\ Fault
          /\ task' = [task EXCEPT ![t].pc = "raised", ![t].exc = "escaped"]
    /\ UNCHANGED <<drive, sheets, ledger, cyc, hist, scratch, agg, aux>>

\* thread_drive.ensure_customer_structure(customer); a failure is caught by
\* the except at the end of the method, which logs and returns result.
EnsureStructure(t) ==
    /\ task[t].pc = "ensure"
    /\ \/ /\ task' = [task EXCEPT ![t].pc = "report"]
          /\ UNCHANGED faults
       \/ /\ Fault
          /\ task' = [task EXCEPT ![t].pc = "returned", ![t].exc = "customer"]
    /\ UNCHANGED <<drive, sheets, ledger, cyc, hist, scratch, agg, aux>>

\* customer.report_id = thread_sheets.get_or_create_report(customer); a
\* failure is logged and report_id stays unset.
GetReport(t) ==
    /\ task[t].pc = "report"
    /\ \/ /\ task' = [task EXCEPT ![t].pc = "scan", ![t].report = TRUE]
          /\ UNCHANGED faults
       \/ /\ Fault
          /\ task' = [task EXCEPT ![t].pc = "scan"]
    /\ UNCHANGED <<drive, sheets, ledger, cyc, hist, scratch, agg, aux>>

\* pdf_files = thread_drive.scan_customer_folder(customer)
Scan(t) ==
    /\ task[t].pc = "scan"
    /\ \/ /\ task' = [task EXCEPT ![t].pc = "loop",
                                  ![t].files = SeqOf({f \in Files : /\ drive[f].loc = "inbox"
                                                                   /\ drive[f].folder = task[t].folder})]
          /\ UNCHANGED faults
       \/ /\ Fault
          /\ task' = [task EXCEPT ![t].pc = "returned", ![t].exc = "customer"]
    /\ UNCHANGED <<drive, sheets, ledger, cyc, hist, scratch, agg, aux>>

\* Head of "for pdf in pdf_files": enter _process_single_file for the next
\* file, or leave the loop ("if all_new_transactions: publish").
NextFile(t) ==
    /\ task[t].pc = "loop"
    /\ IF task[t].idx <= Len(task[t].files)
       THEN task' = [task EXCEPT ![t].pc = "s_download",
                                 ![t].local = FALSE, ![t].hash = NoHash,
                                 ![t].txns = <<>>, ![t].attempt = 0, ![t].empty = FALSE,
                                 ![t].dup = FALSE,
                                 ![t].prior = <<task[t].cust, CurHash(t)>> \in succeeded]
       ELSE task' = [task EXCEPT ![t].pc = IF task[t].all_new # <<>> THEN "publish"
                                           ELSE "returned"]
    /\ UNCHANGED <<drive, sheets, ledger, cyc, faults, hist, scratch, agg, aux>>

\* _process_single_file returned (transactions, success): loop body
\* bookkeeping, with the finally clause (local file unlinked).
FileReturns(T, txns, success) ==
    [T EXCEPT !.pc = "loop", !.idx = T.idx + 1,
              !.local = FALSE, !.hash = NoHash, !.txns = <<>>, !.attempt = 0,
              !.files_processed = IF success THEN T.files_processed + 1 ELSE T.files_processed,
              !.transactions_extracted = IF success THEN T.transactions_extracted + Len(txns)
                                         ELSE T.transactions_extracted,
              !.all_new = IF success THEN T.all_new \o txns ELSE T.all_new,
              !.files_failed = IF success THEN T.files_failed ELSE T.files_failed + 1]

\* An exception left _process_single_file through its except handler: the
\* finally clause runs, the customer-level except logs it, result is returned.
FileEscapes(T) ==
    [T EXCEPT !.pc = "returned", !.exc = "pipeline",
              !.local = FALSE, !.hash = NoHash, !.txns = <<>>]

\* ------------------------------------------------- _update_sheets_with_transactions
\* spreadsheet_id = customer.report_id, else get_or_create_report (on
\* failure: log and return without publishing).
PubStart(t) ==
    /\ task[t].pc = "publish"
    /\ \/ /\ task[t].report
          /\ task' = [task EXCEPT ![t].pc = "pub_raw"]
          /\ UNCHANGED faults
       \/ /\ ~task[t].report
          /\ task' = [task EXCEPT ![t].pc = "pub_raw", ![t].report = TRUE]
          /\ UNCHANGED faults
       \/ /\ ~task[t].report
          /\ Fault
          /\ task' = [task EXCEPT ![t].pc = "returned", ![t].exc = "customer"]
    /\ UNCHANGED <<drive, sheets, ledger, cyc, hist, scratch, agg, aux>>

\* sheets.append_raw_data(spreadsheet_id, transactions, batch_name)
PubRaw(t) ==
    /\ task[t].pc = "pub_raw"
    /\ \/ /\ raw' = [raw EXCEPT ![task[t].cust] = @ + Len(task[t].all_new)]
          /\ pubRaw' = [f \in Files |-> IF f \in SrcSet(task[t].all_new)
                                        THEN pubRaw[f] + 1 ELSE pubRaw[f]]
          /\ task' = [task EXCEPT ![t].pc = "pub_budget"]
          /\ UNCHANGED faults
       \/ /\ Fault
          /\ task' = [task EXCEPT ![t].pc = "returned", ![t].exc = "customer"]
          /\ UNCHANGED <<raw, pubRaw>>
    /\ UNCHANGED <<drive, budget, pubBudget, ledger, cyc, hist, scratch, agg, aux>>

\* sheets.update_budget(spreadsheet_id, aggregated_data)
PubBudget(t) ==
    /\ task[t].pc = "pub_budget"
    /\ \/ /\ budget' = [budget EXCEPT ![task[t].cust] = @ + SumAmounts(task[t].all_new)]
          /\ pubBudget' = [f \in Files |-> IF f \in SrcSet(task[t].all_new)
                                           THEN pubBudget[f] + 1 ELSE pubBudget[f]]
          /\ UNCHANGED faults
          /\ task' = [task EXCEPT ![t].pc = "returned"]
       \/ /\ Fault
          /\ UNCHANGED <<budget, pubBudget>>
          /\ task' = [task EXCEPT ![t].pc = "returned", ![t].exc = "customer"]
       \* _find_category_row: the read of the category column fails, the
       \* HttpError is logged and None returned; the category (the items of
       \* one document fall in one category) is skipped and update_budget
       \* returns.
       \/ /\ Fault
          /\ UNCHANGED <<budget, pubBudget>>
          /\ task' = [task EXCEPT ![t].pc = "returned"]
    /\ UNCHANGED <<drive, raw, pubRaw, ledger, cyc, hist, scratch, agg, aux>>

\* ---------------------------------------------------------- Drive moves
\* DrivePoller._move_to_subfolder: addParents=folder, removeParents=customer
\* folder.  When the file has already left the customer folder the outcome
\* of the second move is the Drive service's choice.
MoveOk(f, dest) ==
    /\ drive' = [drive EXCEPT ![f].loc = dest]
    /\ UNCHANGED faults

MoveFails(f) ==
    /\ UNCHANGED drive
    /\ IF drive[f].loc = "inbox" THEN Fault ELSE UNCHANGED faults

\* ------------------------------------------------- _process_single_file
\* local_path = drive.download_pdf(...); file_hash = calculate_hash(local_path)
SDownload(t) ==
    /\ task[t].pc = "s_download"
    /\ \/ /\ task' = [task EXCEPT ![t].pc = "s_check", ![t].local = TRUE,
                                  ![t].hash = CurHash(t)]
          /\ scratch' = scratch \cup {LocalPath(t)}
          /\ UNCHANGED faults
       \/ /\ Fault
          /\ task' = [task EXCEPT ![t].pc = "h_move"]
          \* download_pdf raised before, or after, open(local_path, "wb")
          /\ \/ UNCHANGED scratch
             \/ scratch' = scratch \cup {LocalPath(t)}
    /\ UNCHANGED <<drive, sheets, ledger, cyc, hist, agg, aux>>

\* if self.hash_registry.is_processed(customer.id, file_hash)
SCheck(t) ==
    /\ task[t].pc = "s_check"
    /\ \/ /\ task' = [task EXCEPT ![t].pc =
                        IF is_processed(ledger, task[t].cust, task[t].hash)
                        THEN "s_dup" ELSE "g_download",
                                  ![t].dup = is_processed(ledger, task[t].cust, task[t].hash)]
          /\ UNCHANGED faults
       \/ /\ Fault
          /\ task' = [task EXCEPT ![t].pc = "h_move"]
    /\ UNCHANGED <<drive, sheets, ledger, cyc, hist, scratch, agg, aux>>

\* drive.move_to_duplicates(pdf, customer); return [], True
SDup(t) ==
    /\ task[t].pc = "s_dup"
    /\ \/ /\ MoveOk(Cur(t), "Duplicates")
          /\ task' = [task EXCEPT ![t] = FileReturns(task[t], <<>>, TRUE)]
          /\ succeeded' = succeeded \cup {<<task[t].cust, task[t].hash>>}
          /\ scratch' = Unlinked(t)
       \/ /\ MoveFails(Cur(t))
          /\ task' = [task EXCEPT ![t].pc = "h_move"]
          /\ UNCHANGED <<succeeded, scratch>>
    /\ UNCHANGED <<sheets, ledger, cyc, marks, agg, aux>>

\* ------------------------------------------- GeminiProcessor.process_pdf
\* An exception leaves process_pdf: the retry_with_backoff(max_retries=3)
\* wrapper re-invokes it on a retryable error while attempts remain, else the
\* exception reaches the except handler of _process_single_file.
GRaise(T, retryable) ==
    IF retryable /\ T.attempt < gemini_max_retries
    THEN [T EXCEPT !.pc = "g_download", !.attempt = T.attempt + 1, !.txns = <<>>]
    ELSE [T EXCEPT !.pc = "h_move", !.txns = <<>>]

\* local_path = self.drive_poller.download_pdf(...); calculate_hash
GDownload(t) ==
    /\ task[t].pc = "g_download"
    /\ \/ /\ task' = [task EXCEPT ![t].pc = "g_check"]
          /\ scratch' = scratch \cup {LocalPath(t)}
          /\ UNCHANGED faults
       \/ /\ Fault
          /\ \E retryable \in BOOLEAN :
                task' = [task EXCEPT ![t] = GRaise(task[t], retryable)]
          /\ \/ UNCHANGED scratch
             \/ scratch' = scratch \cup {LocalPath(t)}
    /\ UNCHANGED <<drive, sheets, ledger, cyc, hist, agg, aux>>

\* if self.hash_registry.is_processed(customer.id, file_hash)
GCheck(t) ==
    /\ task[t].pc = "g_check"
    /\ \/ /\ task' = [task EXCEPT ![t].pc =
                        IF is_processed(ledger, task[t].cust, task[t].hash)
                        THEN "g_dup" ELSE "g_extract",
                                  ![t].dup = is_processed(ledger, task[t].cust, task[t].hash)]
          /\ UNCHANGED faults
       \/ /\ Fault
          /\ task' = [task EXCEPT ![t] = GRaise(task[t], FALSE)]
    /\ UNCHANGED <<drive, sheets, ledger, cyc, hist, scratch, agg, aux>>

\* self.drive_poller.move_to_duplicates(pdf_file, customer); return []
GDup(t) ==
    /\ task[t].pc = "g_dup"
    /\ \/ /\ MoveOk(Cur(t), "Duplicates")
          /\ task' = [task EXCEPT ![t].pc = "s_archive", ![t].txns = <<>>]
       \/ /\ MoveFails(Cur(t))
          /\ \E retryable \in BOOLEAN :
                task' = [task EXCEPT ![t] = GRaise(task[t], retryable)]
    /\ UNCHANGED <<sheets, ledger, cyc, hist, scratch, agg, aux>>

\* transactions = extract_transactions_from_pdf(...); an extraction failure
\* raises RetryableLLMError, an empty list raises PDFError: neither is in
\* RETRYABLE_ERRORS.
GExtract(t) ==
    /\ task[t].pc = "g_extract"
    /\ \/ /\ LocalPath(t) \in scratch
          /\ LET txns == extract_transactions_from_pdf(Cur(t), drive[Cur(t)].content)
             IN task' = [task EXCEPT ![t] =
                            IF no_transactions(txns)
                            THEN [GRaise(task[t], FALSE) EXCEPT !.empty = (txns = <<>>)]
                            ELSE [task[t] EXCEPT !.pc = "g_report", !.txns = txns,
                                                 !.empty = (txns = <<>>)]]
          /\ UNCHANGED faults
       \/ /\ Fault
          /\ task' = [task EXCEPT ![t] = GRaise(task[t], FALSE)]
       \* the local file is gone (unlinked by another worker of the same
       \* customer id and file name): the upload fails
       \/ /\ LocalPath(t) \notin scratch
          /\ task' = [task EXCEPT ![t] = GRaise(task[t], FALSE)]
          /\ UNCHANGED faults
    /\ UNCHANGED <<drive, sheets, ledger, cyc, hist, scratch, agg, aux>>

\* aggregated = aggregate(...); spreadsheet_id = get_or_create_report(customer)
GReport(t) ==
    /\ task[t].pc = "g_report"
    /\ \/ /\ task' = [task EXCEPT ![t].pc = "g_budget"]
          /\ UNCHANGED faults
       \/ /\ Fault
          /\ \E retryable \in BOOLEAN :
                task' = [task EXCEPT ![t] = GRaise(task[t], retryable)]
    /\ UNCHANGED <<drive, sheets, ledger, cyc, hist, scratch, agg, aux>>

\* self.sheets_generator.update_budget(spreadsheet_id, aggregated)
GBudget(t) ==
    /\ task[t].pc = "g_budget"
    /\ \/ /\ budget' = [budget EXCEPT ![task[t].cust] = @ + SumAmounts(task[t].txns)]
          /\ pubBudget' = [pubBudget EXCEPT ![Cur(t)] = @ + 1]
          /\ task' = [task EXCEPT ![t].pc = "g_raw"]
          /\ UNCHANGED faults
       \/ /\ Fault
          /\ \E retryable \in BOOLEAN :
                task' = [task EXCEPT ![t] = GRaise(task[t], retryable)]
          /\ UNCHANGED <<budget, pubBudget>>
       \* _find_category_row: the read of the category column fails, the
       \* HttpError is logged and None returned; the category is skipped and
       \* update_budget returns.
       \/ /\ Fault
          /\ task' = [task EXCEPT ![t].pc = "g_raw"]
          /\ UNCHANGED <<budget, pubBudget>>
    /\ UNCHANGED <<drive, raw, pubRaw, ledger, cyc, hist, scratch, agg, aux>>

\* self.sheets_generator.append_raw_data(spreadsheet_id, transactions, name)
GRaw(t) ==
    /\ task[t].pc = "g_raw"
    /\ \/ /\ raw' = [raw EXCEPT ![task[t].cust] = @ + Len(task[t].txns)]
          /\ pubRaw' = [pubRaw EXCEPT ![Cur(t)] = @ + 1]
          /\ task' = [task EXCEPT ![t].pc = "g_archive"]
          /\ UNCHANGED faults
       \/ /\ Fault
          /\ \E retryable \in BOOLEAN :
                task' = [task EXCEPT ![t] = GRaise(task[t], retryable)]
          /\ UNCHANGED <<raw, pubRaw>>
    /\ UNCHANGED <<drive, budget, pubBudget, ledger, cyc, hist, scratch, agg, aux>>

\* Mutant: a failed move to Archive is swallowed and the run goes on.
GArchive_swallows(t) ==
    /\ task[t].pc = "g_archive"
    /\ \/ /\ MoveOk(Cur(t), "Archive")
          /\ task' = [task EXCEPT ![t].pc = "g_mark"]
       \/ /\ MoveFails(Cur(t))
          /\ task' = [task EXCEPT ![t].pc = "g_mark"]
    /\ UNCHANGED <<sheets, ledger, cyc, hist, scratch, agg, aux>>

\* self.drive_poller.move_to_archive(pdf_file, customer)
GArchive(t) ==
    /\ task[t].pc = "g_archive"
    /\ \/ /\ MoveOk(Cur(t), "Archive")
          /\ task' = [task EXCEPT ![t].pc = "g_mark"]
       \/ /\ MoveFails(Cur(t))
          /\ \E retryable \in BOOLEAN :
                task' = [task EXCEPT ![t] = GRaise(task[t], retryable)]
    /\ UNCHANGED <<sheets, ledger, cyc, hist, scratch, agg, aux>>

\* self.hash_registry.mark_processed(FileRecord(customer.id, file_hash,
\* pdf_file.name, "success")); return transactions
GMark(t) ==
    /\ task[t].pc = "g_mark"
    /\ LET rec == FileRecord(task[t].cust, task[t].hash, drive[Cur(t)].name, "success")
       IN \/ /\ ~mark_raises(rec)
             /\ ledger' = mark_processed(ledger, rec)
             /\ marks' = Marked(rec)
             /\ task' = [task EXCEPT ![t].pc = "s_archive"]
             /\ UNCHANGED faults
          \/ /\ Fault
             /\ task' = [task EXCEPT ![t] = GRaise(task[t], FALSE)]
             /\ UNCHANGED <<ledger, marks>>
    /\ UNCHANGED <<drive, sheets, cyc, succeeded, scratch, agg, aux>>

\* --------------------------------- _process_single_file, after process_pdf
\* drive.move_to_archive(pdf, customer)
SArchive(t) ==
    /\ task[t].pc = "s_archive"
    /\ \/ /\ MoveOk(Cur(t), "Archive")
          /\ task' = [task EXCEPT ![t].pc = "s_mark"]
       \/ /\ MoveFails(Cur(t))
          /\ task' = [task EXCEPT ![t].pc = "h_move"]
    /\ UNCHANGED <<sheets, ledger, cyc, hist, scratch, agg, aux>>

\* mark_processed(FileRecord(..., status="SUCCESS")); return transactions, True
SMark(t) ==
    /\ task[t].pc = "s_mark"
    /\ LET rec == FileRecord(task[t].cust, task[t].hash, drive[Cur(t)].name, "SUCCESS")
       IN \/ /\ ~mark_raises(rec)
             /\ ledger' = mark_processed(ledger, rec)
             /\ marks' = Marked(rec)
             /\ succeeded' = succeeded \cup {<<task[t].cust, task[t].hash>>}
             /\ task' = [task EXCEPT ![t] = FileReturns(task[t], task[t].txns, TRUE)]
             /\ scratch' = Unlinked(t)
             /\ UNCHANGED faults
          \/ /\ Fault
             /\ task' = [task EXCEPT ![t].pc = "h_move"]
             /\ UNCHANGED <<ledger, marks, succeeded, scratch>>
    /\ UNCHANGED <<drive, sheets, cyc, agg, aux>>

\* Mutant: a failure of the move to Error is not caught, it leaves the
\* except handler.
HMove_propagates(t) ==
    /\ task[t].pc = "h_move"
    /\ \/ /\ MoveOk(Cur(t), "Error")
          /\ task' = [task EXCEPT ![t] = IF task[t].local
                                         THEN [task[t] EXCEPT !.pc = "h_mark"]
                                         ELSE FileReturns(task[t], <<>>, FALSE)]
          /\ UNCHANGED scratch
       \/ /\ MoveFails(Cur(t))
          /\ task' = [task EXCEPT ![t] = FileEscapes(task[t])]
          /\ scratch' = Unlinked(t)
    /\ UNCHANGED <<sheets, ledger, cyc, hist, agg, aux>>

\* Mutant: the handler records the failure without testing local_path.
HMove_always_marks(t) ==
    /\ task[t].pc = "h_move"
    /\ \/ MoveOk(Cur(t), "Error")
       \/ MoveFails(Cur(t))
    /\ task' = [task EXCEPT ![t].pc = "h_mark"]
    /\ UNCHANGED <<sheets, ledger, cyc, hist, scratch, agg, aux>>

\* except Exception: try drive.move_to_error(pdf, customer), a failure of the
\* move is logged and swallowed; without local_path: return [], False.
HMove(t) ==
    /\ task[t].pc = "h_move"
    /\ \/ MoveOk(Cur(t), "Error")
       \/ MoveFails(Cur(t))
    /\ task' = [task EXCEPT ![t] = IF task[t].local
                                   THEN [task[t] EXCEPT !.pc = "h_mark"]
                                   ELSE FileReturns(task[t], <<>>, FALSE)]
    /\ UNCHANGED <<sheets, ledger, cyc, hist, scratch, agg, aux>>

\* if local_path: file_hash = calculate_hash(local_path);
\* mark_processed(FileRecord(..., status="FAILED")); return [], False.
\* An exception here is raised inside the except handler and leaves
\* _process_single_file.
HMark(t) ==
    /\ task[t].pc = "h_mark"
    /\ LET rec == FileRecord(task[t].cust, CurHash(t), drive[Cur(t)].name, "FAILED")
       IN \/ /\ LocalPath(t) \in scratch
             /\ ~mark_raises(rec)
             /\ ledger' = mark_processed(ledger, rec)
             /\ marks' = Marked(rec)
             /\ task' = [task EXCEPT ![t] = FileReturns(task[t], <<>>, FALSE)]
             /\ UNCHANGED faults
          \/ /\ Fault
             /\ task' = [task EXCEPT ![t] = FileEscapes(task[t])]
             /\ UNCHANGED <<ledger, marks>>
          \* the local file is gone: calculate_hash raises FileNotFoundError
          \/ /\ LocalPath(t) \notin scratch
             /\ task' = [task EXCEPT ![t] = FileEscapes(task[t])]
             /\ UNCHANGED <<ledger, marks, faults>>
    /\ scratch' = Unlinked(t)
    /\ UNCHANGED <<drive, sheets, cyc, succeeded, agg, aux>>

\* ------------------------------------------------------------------ spec
Next ==
    \/ \E f \in Files, d \in FolderIds, n \in Names, k \in Contents : Upload(f, d, n, k)
    \/ StartCycle
    \/ DiscoverFails
    \/ EndCycle
    \/ \E t \in Tasks : StartWorker(t)
    \/ \E t \in Tasks : Collect(t)
    \/ \E t \in Tasks : CreateClients(t)
    \/ \E t \in Tasks : EnsureStructure(t)
    \/ \E t \in Tasks : GetReport(t)
    \/ \E t \in Tasks : Scan(t)
    \/ \E t \in Tasks : NextFile(t)
    \/ \E t \in Tasks : PubStart(t)
    \/ \E t \in Tasks : PubRaw(t)
    \/ \E t \in Tasks : PubBudget(t)
    \/ \E t \in Tasks : SDownload(t)
    \/ \E t \in Tasks : SCheck(t)
    \/ \E t \in Tasks : SDup(t)
    \/ \E t \in Tasks : GDownload(t)
    \/ \E t \in Tasks : GCheck(t)
    \/ \E t \in Tasks : GDup(t)
    \/ \E t \in Tasks : GExtract(t)
    \/ \E t \in Tasks : GReport(t)
    \/ \E t \in Tasks : GBudget(t)
    \/ \E t \in Tasks : GRaw(t)
    \/ \E t \in Tasks : GArchive(t)
    \/ \E t \in Tasks : GMark(t)
    \/ \E t \in Tasks : SArchive(t)
    \/ \E t \in Tasks : SMark(t)
    \/ \E t \in Tasks : HMove(t)
    \/ \E t \in Tasks : HMark(t)

Spec == Init /\ [][Next]_vars

\* ------------------------------------------- more customers than workers
\* The root folder holds four customer folders and no documents: the cycle
\* has to run four customer tasks on max_concurrent_customers workers.
PoolListing == << [id |-> "d1", name |-> "X"], [id |-> "d2", name |-> "Y"],
                 [id |-> "d3", name |-> "X"], [id |-> "d4", name |-> "Y"] >>

InitPool ==
    /\ folders = PoolListing
    /\ drive = [f \in Files |-> [folder |-> "d1", name |-> "a.pdf", content |-> "cA", loc |-> "absent"]]
    /\ budget = [c \in Customers |-> 0]
    /\ raw = [c \in Customers |-> 0]
    /\ pubBudget = [f \in Files |-> 0]
    /\ pubRaw = [f \in Files |-> 0]
    /\ ledger = <<>>
    /\ phase = "idle"
    /\ cycles = 0
    /\ customers = <<>>
    /\ task = [t \in DOMAIN folders |-> IdleTask]
    /\ results = <<>>
    /\ faults = 0
    /\ marks = [k \in Customers \X {"hA", "hB"} \X ValidStatus |-> 0]
    /\ succeeded = {}
    /\ scratch = {}
    /\ batch = <<>>
    /\ aggregated = NotAggregated
    /\ AuxInit

NextPool ==
    \/ StartCycle
    \/ DiscoverFails
    \/ EndCycle
    \/ \E t \in DOMAIN task : StartWorker(t)
    \/ \E t \in DOMAIN task : Collect(t)
    \/ \E t \in DOMAIN task : CreateClients(t)
    \/ \E t \in DOMAIN task : EnsureStructure(t)
    \/ \E t \in DOMAIN task : GetReport(t)
    \/ \E t \in DOMAIN task : Scan(t)
    \/ \E t \in DOMAIN task : NextFile(t)

SpecPool == InitPool /\ [][NextPool]_vars

\* ------------------------------------------------ the aggregators alone
\* A batch of transactions is handed to one of the two aggregators.
InitAgg ==
    /\ folders = << [id |-> "d1", name |-> "X"], [id |-> "d2", name |-> "Y"] >>
    /\ drive = [f \in Files |-> [folder |-> "d1", name |-> "a.pdf", content |-> "cA", loc |-> "absent"]]
    /\ budget = [c \in Customers |-> 0]
    /\ raw = [c \in Customers |-> 0]
    /\ pubBudget = [f \in Files |-> 0]
    /\ pubRaw = [f \in Files |-> 0]
    /\ ledger = <<>>
    /\ phase = "idle"
    /\ cycles = 0
    /\ customers = <<>>
    /\ task = [t \in DOMAIN folders |-> IdleTask]
    /\ results = <<>>
    /\ faults = 0
    /\ marks = [k \in Customers \X {"hA", "hB"} \X ValidStatus |-> 0]
    /\ succeeded = {}
    /\ scratch = {}
    /\ batch \in Batches
    /\ aggregated = NotAggregated
    /\ AuxInit

\* GeminiProcessor.process_pdf: aggregated = self.aggregator.aggregate(...)
Aggregate ==
    /\ aggregated = NotAggregated
    /\ aggregated' = aggregate(batch, "X")
    /\ UNCHANGED <<drive, sheets, ledger, cyc, task, faults, hist, scratch, batch, aux>>

\* _update_sheets_with_transactions:
\* aggregated_data = self._aggregate_transactions(customer.id, transactions)
AggregateTransactions(now_month) ==
    /\ aggregated = NotAggregated
    /\ aggregated' = aggregate_transactions("X", batch, now_month)
    /\ UNCHANGED <<drive, sheets, ledger, cyc, task, faults, hist, scratch, batch, aux>>

NextAgg ==
    \/ Aggregate
    \/ \E now_month \in Months : AggregateTransactions(now_month)

SpecAgg == InitAgg /\ [][NextAgg]_vars

\* ------------------------------------------- publishing an aggregate delta
\* One update_budget call on the report of customer X, whose Budget sheet
\* holds earlier amounts or cleared cells.
InitBudget ==
    /\ folders = << [id |-> "d1", name |-> "X"], [id |-> "d2", name |-> "Y"] >>
    /\ drive = [f \in Files |-> [folder |-> "d1", name |-> "a.pdf", content |-> "cA", loc |-> "absent"]]
    /\ budget = [c \in Customers |-> 0]
    /\ raw = [c \in Customers |-> 0]
    /\ pubBudget = [f \in Files |-> 0]
    /\ pubRaw = [f \in Files |-> 0]
    /\ ledger = <<>>
    /\ phase = "idle"
    /\ cycles = 0
    /\ customers = <<>>
    /\ task = [t \in DOMAIN folders |-> IdleTask]
    /\ results = <<>>
    /\ faults = 0
    /\ marks = [k \in Customers \X {"hA", "hB"} \X ValidStatus |-> 0]
    /\ succeeded = {}
    /\ scratch = {}
    /\ batch \in {b \in Batches : Len(b) \in 1..MaxDeltaItems}
    /\ aggregated = NotAggregated
    /\ \E stored \in [SheetRows -> {EmptyCell, NumberCell(-50)}] :
          cells = [c \in SheetRows |-> [m \in Months |-> stored[c]]]
    /\ upd = UpdIdle
    /\ rw = RwIdle
    /\ svc = SvcIdle
    /\ reg = RegIdle

\* retry_with_backoff around update_budget: a RetryableNetworkError re-runs
\* the whole function while attempts remain, else it is raised.
URaise(U) ==
    IF U.attempt < sheets_max_retries
    THEN [U EXCEPT !.pc = "validate", !.attempt = @ + 1, !.todo = <<>>]
    ELSE [U EXCEPT !.pc = "raised"]

\* sheets.update_budget(spreadsheet_id, aggregated_data) is called.
UpdateBudget ==
    /\ upd.pc = "idle"
    /\ aggregated.status = "ok"
    /\ upd' = [upd EXCEPT !.pc = "validate", !.before = cells]
    /\ UNCHANGED <<drive, sheets, ledger, cyc, task, faults, hist, scratch, agg, cells, rw, svc, reg>>

\* get_or_create_report, validate_structure, _find_month_column.
UValidate ==
    /\ upd.pc = "validate"
    /\ \/ /\ upd' = [upd EXCEPT !.pc = "row",
                                  !.todo = totals_items(aggregated.transactions, {})]
          /\ UNCHANGED faults
       \/ /\ Fault     \* get_or_create_report raises RetryableNetworkError
          /\ upd' = URaise(upd)
       \/ /\ Fault     \* validate_structure returns False: SheetsError, not retryable
          /\ upd' = [upd EXCEPT !.pc = "raised"]
    /\ UNCHANGED <<drive, sheets, ledger, cyc, task, hist, scratch, agg, cells, rw, svc, reg>>

\* Loop head and _find_category_row: a category without a row is skipped,
\* and so is one whose row lookup failed (the HttpError is swallowed).
URow ==
    /\ upd.pc = "row"
    /\ IF upd.todo = <<>>
       THEN /\ upd' = [upd EXCEPT !.pc = "done"]
            /\ UNCHANGED faults
       ELSE \/ /\ Head(upd.todo) \in SheetRows
               /\ upd' = [upd EXCEPT !.pc = "read"]
               /\ UNCHANGED faults
            \/ /\ Head(upd.todo) \notin SheetRows
               /\ upd' = [upd EXCEPT !.todo = Tail(@)]
               /\ UNCHANGED faults
            \/ /\ Fault
               /\ upd' = [upd EXCEPT !.todo = Tail(@)]
    /\ UNCHANGED <<drive, sheets, ledger, cyc, task, hist, scratch, agg, cells, rw, svc, reg>>

\* "existing_amount = self._parse_amount(existing_value)"
URead ==
    /\ upd.pc = "read"
    /\ \/ /\ upd' = [upd EXCEPT !.pc = "write",
                                  !.existing = parse_amount(cells[Head(upd.todo)][aggregated.month])]
          /\ UNCHANGED faults
       \/ /\ Fault
          /\ upd' = URaise(upd)
    /\ UNCHANGED <<drive, sheets, ledger, cyc, task, hist, scratch, agg, cells, rw, svc, reg>>

\* "new_amount = existing_amount + amount" is written back to the cell.
UWrite ==
    /\ upd.pc = "write"
    /\ \/ /\ cells' = [cells EXCEPT ![Head(upd.todo)][aggregated.month] =
                            NumberCell(upd.existing + aggregated.totals[Head(upd.todo)])]
          /\ upd' = [upd EXCEPT !.pc = "row", !.todo = Tail(@)]
          /\ UNCHANGED faults
       \/ /\ Fault
          /\ upd' = URaise(upd)
          /\ UNCHANGED cells
    /\ UNCHANGED <<drive, sheets, ledger, cyc, task, hist, scratch, agg, rw, svc, reg>>

NextBudget ==
    \/ \E now_month \in Months : AggregateTransactions(now_month)
    \/ UpdateBudget
    \/ UValidate
    \/ URow
    \/ URead
    \/ UWrite

SpecBudget == InitBudget /\ [][NextBudget]_vars

\* ------------------------------------------------ one retry wrapper call
\* A function decorated with retry_with_backoff(max_retries, ...) is called.
InitRetry ==
    /\ folders = << [id |-> "d1", name |-> "X"], [id |-> "d2", name |-> "Y"] >>
    /\ drive = [f \in Files |-> [folder |-> "d1", name |-> "a.pdf", content |-> "cA", loc |-> "absent"]]
    /\ budget = [c \in Customers |-> 0]
    /\ raw = [c \in Customers |-> 0]
    /\ pubBudget = [f \in Files |-> 0]
    /\ pubRaw = [f \in Files |-> 0]
    /\ ledger = <<>>
    /\ phase = "idle"
    /\ cycles = 0
    /\ customers = <<>>
    /\ task = [t \in DOMAIN folders |-> IdleTask]
    /\ results = <<>>
    /\ faults = 0
    /\ marks = [k \in Customers \X {"hA", "hB"} \X ValidStatus |-> 0]
    /\ succeeded = {}
    /\ scratch = {}
    /\ batch = <<>>
    /\ aggregated = NotAggregated
    /\ cells = InitCells
    /\ upd = UpdIdle
    /\ \E max_retries \in 0..MaxRetries : \E func \in Decorated :
          rw = [RwIdle EXCEPT !.pc = "call", !.max_retries = max_retries,
                              !.retryable = func.retryable, !.wraps = func.wraps]
    /\ svc = SvcIdle
    /\ reg = RegIdle

\* wrapper: "return func(*args, **kwargs)" and the except clause.
RwInvoke ==
    /\ rw.pc = "call"
    /\ \/ rw' = [rw EXCEPT !.pc = "returned", !.calls = @ + 1]
       \/ \E remote \in RemoteErrors :
             LET e == raised_by(remote, rw.wraps)
                 R == [rw EXCEPT !.calls = @ + 1,
                                 !.remote = Append(@, remote),
                                 !.errs = Append(@, e)]
             IN rw' = IF ~is_retryable(e, rw.retryable) \/ is_client_error(e)
                         \/ attempts_exhausted(rw.attempt, rw.max_retries)
                      THEN [R EXCEPT !.pc = "raised", !.out = e]
                      ELSE [R EXCEPT !.pc = "sleep"]
    /\ UNCHANGED <<drive, sheets, ledger, cyc, task, faults, hist, scratch, agg, cells, upd, svc, reg>>

\* wrapper: "time.sleep(wait_time)", then the next iteration of the loop.
RwSleep ==
    /\ rw.pc = "sleep"
    /\ rw' = [rw EXCEPT !.pc = "call", !.sleeps = @ + 1, !.attempt = @ + 1]
    /\ UNCHANGED <<drive, sheets, ledger, cyc, task, faults, hist, scratch, agg, cells, upd, svc, reg>>

NextRetry ==
    \/ RwInvoke
    \/ RwSleep

SpecRetry == InitRetry /\ [][NextRetry]_vars

\* ------------------------------------- a retry wrapper inside a retry wrapper
\* The decorated functions whose body calls another decorated function,
\* which makes the remote call: update_budget -> get_or_create_report,
\* _move_to_subfolder -> _get_or_create_subfolder, process_pdf -> download_pdf.
NestedCalls ==
    {[outer |-> [max_retries |-> sheets_max_retries, retryable |-> SHEETS_RETRYABLE, wraps |-> WRAPS_HTTP],
      inner |-> [max_retries |-> sheets_max_retries, retryable |-> SHEETS_RETRYABLE, wraps |-> WRAPS_NETWORK]],
     [outer |-> [max_retries |-> drive_max_retries, retryable |-> DRIVE_RETRYABLE, wraps |-> {}],
      inner |-> [max_retries |-> drive_max_retries, retryable |-> DRIVE_RETRYABLE, wraps |-> {}]],
     [outer |-> [max_retries |-> gemini_max_retries, retryable |-> RETRYABLE_ERRORS, wraps |-> {}],
      inner |-> [max_retries |-> drive_max_retries, retryable |-> DRIVE_RETRYABLE, wraps |-> {}]]}

InitNested ==
    /\ folders = << [id |-> "d1", name |-> "X"], [id |-> "d2", name |-> "Y"] >>
    /\ drive = [f \in Files |-> [folder |-> "d1", name |-> "a.pdf", content |-> "cA", loc |-> "absent"]]
    /\ budget = [c \in Customers |-> 0]
    /\ raw = [c \in Customers |-> 0]
    /\ pubBudget = [f \in Files |-> 0]
    /\ pubRaw = [f \in Files |-> 0]
    /\ ledger = <<>>
    /\ phase = "idle"
    /\ cycles = 0
    /\ customers = <<>>
    /\ task = [t \in DOMAIN folders |-> IdleTask]
    /\ results = <<>>
    /\ faults = 0
    /\ marks = [k \in Customers \X {"hA", "hB"} \X ValidStatus |-> 0]
    /\ succeeded = {}
    /\ scratch = {}
    /\ batch = <<>>
    /\ aggregated = NotAggregated
    /\ cells = InitCells
    /\ upd = UpdIdle
    /\ \E n \in NestedCalls :
          rw = [RwIdle EXCEPT !.pc = "call", !.max_retries = n.outer.max_retries,
                              !.retryable = n.outer.retryable, !.wraps = n.outer.wraps,
                              !.inner = [max_retries |-> n.inner.max_retries,
                                         retryable |-> n.inner.retryable,
                                         wraps |-> n.inner.wraps, attempt |-> 0]]
    /\ svc = SvcIdle
    /\ reg = RegIdle

\* The outer wrapper calls func, func calls the inner wrapper, the inner
\* wrapper calls the function that makes the remote call.  An error of the
\* remote call is handled by the inner wrapper's except clause; what the
\* inner wrapper raises goes through the outer function to the outer
\* wrapper's except clause.
NwInvoke ==
    /\ rw.pc = "call"
    /\ \/ rw' = [rw EXCEPT !.pc = "returned", !.remote_calls = @ + 1]
       \/ \E remote \in RemoteErrors :
             LET e == raised_by(remote, rw.inner.wraps)
                 R == [rw EXCEPT !.remote_calls = @ + 1]
                 o == raised_by(e, rw.wraps)
             IN rw' = IF ~is_retryable(e, rw.inner.retryable) \/ is_client_error(e)
                         \/ attempts_exhausted(rw.inner.attempt, rw.inner.max_retries)
                      THEN IF ~is_retryable(o, rw.retryable) \/ is_client_error(o)
                              \/ attempts_exhausted(rw.attempt, rw.max_retries)
                           THEN [R EXCEPT !.pc = "raised", !.out = o]
                           ELSE [R EXCEPT !.pc = "sleep"]
                      ELSE [R EXCEPT !.pc = "inner_sleep"]
    /\ UNCHANGED <<drive, sheets, ledger, cyc, task, faults, hist, scratch, agg, cells, upd, svc, reg>>

\* inner wrapper: "time.sleep(wait_time)", then its next iteration.
NwInnerSleep ==
    /\ rw.pc = "inner_sleep"
    /\ rw' = [rw EXCEPT !.pc = "call", !.sleeps = @ + 1, !.inner.attempt = @ + 1]
    /\ UNCHANGED <<drive, sheets, ledger, cyc, task, faults, hist, scratch, agg, cells, upd, svc, reg>>

\* outer wrapper: "time.sleep(wait_time)", then func is called again and
\* calls the inner wrapper afresh ("for attempt in range(max_retries + 1)").
NwOuterSleep ==
    /\ rw.pc = "sleep"
    /\ rw' = [rw EXCEPT !.pc = "call", !.sleeps = @ + 1, !.attempt = @ + 1,
                        !.inner.attempt = 0]
    /\ UNCHANGED <<drive, sheets, ledger, cyc, task, faults, hist, scratch, agg, cells, upd, svc, reg>>

NextNested ==
    \/ NwInvoke
    \/ NwInnerSleep
    \/ NwOuterSleep

SpecNested == InitNested /\ [][NextNested]_vars

\* ------------------------------------------------- the registry by itself
\* A session of HashRegistry calls on an empty processed_files table.
InitLedger ==
    /\ folders = << [id |-> "d1", name |-> "X"], [id |-> "d2", name |-> "Y"] >>
    /\ drive = [f \in Files |-> [folder |-> "d1", name |-> "a.pdf", content |-> "cA", loc |-> "absent"]]
    /\ budget = [c \in Customers |-> 0]
    /\ raw = [c \in Customers |-> 0]
    /\ pubBudget = [f \in Files |-> 0]
    /\ pubRaw = [f \in Files |-> 0]
    /\ ledger = <<>>
    /\ phase = "idle"
    /\ cycles = 0
    /\ customers = <<>>
    /\ task = [t \in DOMAIN folders |-> IdleTask]
    /\ results = <<>>
    /\ faults = 0
    /\ marks = [k \in Customers \X {"hA", "hB"} \X ValidStatus |-> 0]
    /\ succeeded = {}
    /\ scratch = {}
    /\ batch = <<>>
    /\ aggregated = NotAggregated
    /\ AuxInit

\* registry.mark_processed(customer_id, file_hash, file_name, status)
MarkProcessed(customer_id, file_hash, file_name, status, now) ==
    /\ Len(reg.calls) < MaxMarks
    /\ LET rec == [customer_id |-> customer_id, file_hash |-> file_hash,
                   file_name |-> file_name, status |-> status]
       IN /\ ledger' = autoincrement(mark_processed(ledger, rec), ledger, reg.seq)
          /\ marks' = Marked(rec)
          /\ reg' = [reg EXCEPT !.stamps = stamped(@, ledger, rec, now),
                                !.seq = IF IntegrityError(ledger, rec) THEN @ ELSE @ + 1,
                                !.calls = Append(@, [customer_id |-> customer_id,
                                                     file_hash |-> file_hash,
                                                     file_name |-> file_name,
                                                     status |-> status,
                                                     processed_at |-> now])]
    /\ UNCHANGED <<drive, sheets, cyc, task, faults, succeeded, scratch, agg, cells, upd, rw, svc>>

\* registry.get_customer_history(customer_id)
GetCustomerHistory(customer_id) ==
    /\ \E rows \in get_customer_history(ledger, reg.stamps, customer_id) :
          reg' = [reg EXCEPT !.out = [customer_id |-> customer_id, rows |-> rows]]
    /\ UNCHANGED <<drive, sheets, ledger, cyc, task, faults, hist, scratch, agg, cells, upd, rw, svc>>

\* clear_cache_command(args.customer): deleted = registry.clear_cache(customer_id)
ClearCache(customer_id) ==
    /\ LET r == clear_cache(ledger, customer_id)
       IN /\ ledger' = rows_at(ledger, r.kept)
          /\ reg' = [reg EXCEPT !.stamps = rows_at(@, r.kept), 
                                !.cleared = [customer_id |-> customer_id,
                                             deleted |-> r.deleted]]
    /\ UNCHANGED <<drive, sheets, cyc, task, faults, hist, scratch, agg, cells, upd, rw, svc>>

\* The values of --customer: a customer id, the empty string, or absent.
ClearArgs == Customers \cup {"", None}

NextLedger ==
    \/ \E c \in Customers, h \in {"hA", "hB"}, n \in Names, st \in ValidStatus, now \in Clock :
          MarkProcessed(c, h, n, st, now)
    \/ \E c \in Customers : GetCustomerHistory(c)

SpecLedger == InitLedger /\ [][NextLedger]_vars

\* A session of the clear-cache command between pipeline writes: the rows
\* are those of one file name, written at one clock reading.
NextClear ==
    \/ \E c \in Customers, h \in {"hA", "hB"}, st \in ValidStatus :
          MarkProcessed(c, h, "a.pdf", st, 1)
    \/ \E c \in ClearArgs : ClearCache(c)

SpecClear == InitLedger /\ [][NextClear]_vars

\* ------------------------------------------------------- the polling loop
\* main() with the "run" command: signal handlers installed, configuration
\* loaded, then _run_polling_loop.  WaitSeconds stands for
\* polling_interval_minutes * 60.
InitService ==
    /\ folders = << [id |-> "d1", name |-> "X"], [id |-> "d2", name |-> "Y"] >>
    /\ drive = [f \in Files |-> [folder |-> "d1", name |-> "a.pdf", content |-> "cA", loc |-> "absent"]]
    /\ budget = [c \in Customers |-> 0]
    /\ raw = [c \in Customers |-> 0]
    /\ pubBudget = [f \in Files |-> 0]
    /\ pubRaw = [f \in Files |-> 0]
    /\ ledger = <<>>
    /\ phase = "idle"
    /\ cycles = 0
    /\ customers = <<>>
    /\ task = [t \in DOMAIN folders |-> IdleTask]
    /\ results = <<>>
    /\ faults = 0
    /\ marks = [k \in Customers \X {"hA", "hB"} \X ValidStatus |-> 0]
    /\ succeeded = {}
    /\ scratch = {}
    /\ batch = <<>>
    /\ aggregated = NotAggregated
    /\ AuxInit

\* signal_handler: SIGTERM or SIGINT arrives, at any point of the main thread.
SignalHandler ==
    /\ svc.pc # "stopped"
    /\ ~svc.shutdown_requested
    /\ svc' = [svc EXCEPT !.shutdown_requested = TRUE]
    /\ UNCHANGED <<drive, sheets, ledger, cyc, task, faults, hist, scratch, agg, cells, upd, rw, reg>>

\* main(): _load_and_validate_config, ProcessingOrchestrator(config), and
\* _run_polling_loop is entered.
SvcEnterLoop ==
    /\ svc.pc = "init"
    /\ svc' = [svc EXCEPT !.pc = "test"]
    /\ UNCHANGED <<drive, sheets, ledger, cyc, task, faults, hist, scratch, agg, cells, upd, rw, reg>>

\* "while not shutdown_requested:" and "cycle_count += 1"
SvcLoopTest ==
    /\ svc.pc = "test"
    /\ IF svc.shutdown_requested
       THEN svc' = [svc EXCEPT !.pc = "stopped"]
       ELSE /\ svc.cycle_count < MaxIterations
            /\ svc' = [svc EXCEPT !.pc = "body", !.cycle_count = @ + 1]
    /\ UNCHANGED <<drive, sheets, ledger, cyc, task, faults, hist, scratch, agg, cells, upd, rw, reg>>

\* "results = orchestrator.run_polling_cycle()" is called.
SvcCycleBegins ==
    /\ svc.pc = "body"
    /\ svc' = [svc EXCEPT !.pc = "cycle"]
    /\ phase' = "running"
    /\ cycles' = cycles + 1
    /\ UNCHANGED <<folders, customers, results, drive, sheets, ledger, task, faults, hist,
                   scratch, agg, cells, upd, rw, reg>>

\* Mutant: no except clause, an exception of the cycle leaves the loop.
SvcCycleEnds_propagates(outcome) ==
    /\ svc.pc = "cycle"
    /\ svc' = IF outcome = "raised"
              THEN [svc EXCEPT !.pc = "stopped", !.outcomes = Append(@, outcome)]
              ELSE [svc EXCEPT !.pc = "wait", !.waited = 0, !.outcomes = Append(@, outcome)]
    /\ phase' = "idle"
    /\ UNCHANGED <<folders, cycles, customers, results, drive, sheets, ledger, task, faults,
                   hist, scratch, agg, cells, upd, rw, reg>>

\* run_polling_cycle returns, or raises and "except Exception" logs it;
\* either way the loop goes on to _wait_for_next_cycle.
SvcCycleEnds(outcome) ==
    /\ svc.pc = "cycle"
    /\ svc' = [svc EXCEPT !.pc = "wait", !.waited = 0, !.outcomes = Append(@, outcome)]
    /\ phase' = "idle"
    /\ UNCHANGED <<folders, cycles, customers, results, drive, sheets, ledger, task, faults,
                   hist, scratch, agg, cells, upd, rw, reg>>

\* Mutant: the wait does not look at the flag.
SvcWait_ignores_shutdown ==
    /\ svc.pc = "wait"
    /\ svc' = IF svc.waited = WaitSeconds
              THEN [svc EXCEPT !.pc = "test"]
              ELSE [svc EXCEPT !.waited = @ + 1]
    /\ UNCHANGED <<drive, sheets, ledger, cyc, task, faults, hist, scratch, agg, cells, upd, rw, reg>>

\* _wait_for_next_cycle: one iteration of "for _ in range(wait_seconds):
\* if shutdown_requested: break; time.sleep(1)", or the end of the loop.
SvcWait ==
    /\ svc.pc = "wait"
    /\ svc' = IF svc.waited = WaitSeconds \/ svc.shutdown_requested
              THEN [svc EXCEPT !.pc = "test"]
              ELSE [svc EXCEPT !.waited = @ + 1]
    /\ UNCHANGED <<drive, sheets, ledger, cyc, task, faults, hist, scratch, agg, cells, upd, rw, reg>>

NextService ==
    \/ SignalHandler
    \/ SvcEnterLoop
    \/ SvcLoopTest
    \/ SvcCycleBegins
    \/ \E outcome \in {"returned", "raised"} : SvcCycleEnds(outcome)
    \/ SvcWait

SpecService == InitService /\ [][NextService]_vars

\* The main thread keeps running: a statement of the loop that can be
\* executed is executed, and a call of run_polling_cycle returns or raises.
\* The signal is under no obligation to arrive.
SvcStep ==
    \/ SvcEnterLoop
    \/ SvcLoopTest
    \/ SvcCycleBegins
    \/ \E outcome \in {"returned", "raised"} : SvcCycleEnds(outcome)
    \/ SvcWait

SpecServiceLive == InitService /\ [][NextService]_vars /\ WF_vars(SvcStep)

\* --------------------------------- one pipeline invocation, step by step
\* The worker of customer X has scanned one document and calls
\* _process_single_file; extract_transactions_from_pdf is followed call by
\* call: upload, the wait for the uploaded file, generate_content.
InitExtract ==
    /\ folders = << [id |-> "d1", name |-> "X"], [id |-> "d2", name |-> "Y"] >>
    /\ \E k \in Contents :
          drive = [f \in Files |-> [folder |-> "d1", name |-> "a.pdf", content |-> k,
                                    loc |-> IF f = 1 THEN "inbox" ELSE "absent"]]
    /\ budget = [c \in Customers |-> 0]
    /\ raw = [c \in Customers |-> 0]
    /\ pubBudget = [f \in Files |-> 0]
    /\ pubRaw = [f \in Files |-> 0]
    /\ ledger = <<>>
    /\ phase = "running"
    /\ cycles = 1
    /\ customers = discover_customers(folders)
    /\ task = [t \in DOMAIN folders |->
                 IF t = 1
                 THEN [IdleTask EXCEPT !.pc = "s_download", !.files = <<1>>, !.report = TRUE]
                 ELSE [IdleTask EXCEPT !.pc = "collected", !.cust = "Y", !.folder = "d2",
                                       !.report = TRUE]]
    /\ results = << [customer_id |-> "Y", files_processed |-> 0, files_failed |-> 0,
                     transactions_extracted |-> 0] >>
    /\ faults = 0
    /\ marks = [k \in Customers \X {"hA", "hB"} \X ValidStatus |-> 0]
    /\ succeeded = {}
    /\ scratch = {}
    /\ batch = <<>>
    /\ aggregated = NotAggregated
    /\ AuxInit

\* The states of an uploaded file that files.upload and files.get report.
FileStates == {"PROCESSING", "ACTIVE", "FAILED"}

\* After upload or get returned a file in state st:
\* "while file_upload.state.name == 'PROCESSING'" goes to time.sleep(2),
\* a state other than ACTIVE raises LLMError, which "except Exception"
\* turns into RetryableLLMError (not in RETRYABLE_ERRORS).
file_state_seen(T, st) ==
    CASE st = "PROCESSING" -> [T EXCEPT !.pc = "x_sleep"]
      [] st = "ACTIVE"     -> [T EXCEPT !.pc = "x_generate"]
      [] OTHER             -> GRaise(T, FALSE)

\* file_upload = self.client.files.upload(file=str(pdf_path))
XUpload(t) ==
    /\ task[t].pc = "g_extract"
    /\ \/ /\ LocalPath(t) \in scratch
          /\ \E st \in FileStates :
                task' = [task EXCEPT ![t] = file_state_seen([task[t] EXCEPT !.polls = 0], st)]
          /\ UNCHANGED faults
       \/ /\ Fault
          /\ task' = [task EXCEPT ![t] = GRaise(task[t], FALSE)]
       \/ /\ LocalPath(t) \notin scratch
          /\ task' = [task EXCEPT ![t] = GRaise(task[t], FALSE)]
          /\ UNCHANGED faults
    /\ UNCHANGED <<drive, sheets, ledger, cyc, hist, scratch, agg, aux>>

\* time.sleep(2) returns.
XSleep(t) ==
    /\ task[t].pc = "x_sleep"
    /\ task' = [task EXCEPT ![t].pc = "x_get"]
    /\ UNCHANGED <<drive, sheets, ledger, cyc, faults, hist, scratch, agg, aux>>

\* file_upload = self.client.files.get(name=file_upload.name); the loop test.
\* polls: the get calls made for the file, counted up to MaxPolls.
XGet(t) ==
    /\ task[t].pc = "x_get"
    /\ LET T == [task[t] EXCEPT !.polls = IF @ < MaxPolls THEN @ + 1 ELSE @]
       IN \/ /\ \E st \in FileStates : task' = [task EXCEPT ![t] = file_state_seen(T, st)]
             /\ UNCHANGED faults
          \/ /\ Fault
             /\ task' = [task EXCEPT ![t] = GRaise(T, FALSE)]
    /\ UNCHANGED <<drive, sheets, ledger, cyc, hist, scratch, agg, aux>>

\* response = generate_content(...); _parse_response; _create_transactions;
\* back in process_pdf an empty list raises PDFError.
XGenerate(t) ==
    /\ task[t].pc = "x_generate"
    /\ \/ /\ LET txns == extract_transactions_from_pdf(Cur(t), drive[Cur(t)].content)
             IN task' = [task EXCEPT ![t] =
                            IF no_transactions(txns)
                            THEN [GRaise(task[t], FALSE) EXCEPT !.empty = (txns = <<>>)]
                            ELSE [task[t] EXCEPT !.pc = "g_report", !.txns = txns,
                                                 !.empty = (txns = <<>>)]]
          /\ UNCHANGED faults
       \/ /\ Fault
          /\ task' = [task EXCEPT ![t] = GRaise(task[t], FALSE)]
    /\ UNCHANGED <<drive, sheets, ledger, cyc, hist, scratch, agg, aux>>

\* The steps of the worker thread inside _process_single_file.
NextExtract ==
    \/ SDownload(1)
    \/ SCheck(1)
    \/ GDownload(1)
    \/ GCheck(1)
    \/ XUpload(1)
    \/ XSleep(1)
    \/ XGet(1)
    \/ XGenerate(1)
    \/ GReport(1)
    \/ GBudget(1)
    \/ GRaw(1)
    \/ GArchive(1)
    \/ GMark(1)
    \/ SArchive(1)
    \/ SMark(1)
    \/ HMove(1)
    \/ HMark(1)

\* Each external call returns or raises and the worker thread keeps running:
\* a step of the invocation that can be taken is taken.
SpecExtract == InitExtract /\ [][NextExtract]_vars /\ WF_vars(NextExtract)

\* ------------------------------------ the same folder discovered twice
\* The Drive listing returns customer X's folder twice, and one document
\* waits in that folder.
DupListing == << [id |-> "d1", name |-> "X"], [id |-> "d1", name |-> "X"] >>

InitDup ==
    /\ folders = DupListing
    /\ drive = [f \in Files |-> [folder |-> "d1", name |-> "a.pdf", content |-> "cA",
                                 loc |-> IF f = 1 THEN "inbox" ELSE "absent"]]
    /\ budget = [c \in Customers |-> 0]
    /\ raw = [c \in Customers |-> 0]
    /\ pubBudget = [f \in Files |-> 0]
    /\ pubRaw = [f \in Files |-> 0]
    /\ ledger = <<>>
    /\ phase = "idle"
    /\ cycles = 0
    /\ customers = <<>>
    /\ task = [t \in DOMAIN folders |-> IdleTask]
    /\ results = <<>>
    /\ faults = 0
    /\ marks = [k \in Customers \X {"hA", "hB"} \X ValidStatus |-> 0]
    /\ succeeded = {}
    /\ scratch = {}
    /\ batch = <<>>
    /\ aggregated = NotAggregated
    /\ AuxInit

\* No further document arrives.
NextDup ==
    \/ StartCycle
    \/ DiscoverFails
    \/ EndCycle
    \/ \E t \in DOMAIN task : StartWorker(t)
    \/ \E t \in DOMAIN task : Collect(t)
    \/ \E t \in DOMAIN task : CreateClients(t)
    \/ \E t \in DOMAIN task : EnsureStructure(t)
    \/ \E t \in DOMAIN task : GetReport(t)
    \/ \E t \in DOMAIN task : Scan(t)
    \/ \E t \in DOMAIN task : NextFile(t)
    \/ \E t \in DOMAIN task : PubStart(t)
    \/ \E t \in DOMAIN task : PubRaw(t)
    \/ \E t \in DOMAIN task : PubBudget(t)
    \/ \E t \in DOMAIN task : SDownload(t)
    \/ \E t \in DOMAIN task : SCheck(t)
    \/ \E t \in DOMAIN task : SDup(t)
    \/ \E t \in DOMAIN task : GDownload(t)
    \/ \E t \in DOMAIN task : GCheck(t)
    \/ \E t \in DOMAIN task : GDup(t)
    \/ \E t \in DOMAIN task : GExtract(t)
    \/ \E t \in DOMAIN task : GReport(t)
    \/ \E t \in DOMAIN task : GBudget(t)
    \/ \E t \in DOMAIN task : GRaw(t)
    \/ \E t \in DOMAIN task : GArchive(t)
    \/ \E t \in DOMAIN task : GMark(t)
    \/ \E t \in DOMAIN task : SArchive(t)
    \/ \E t \in DOMAIN task : SMark(t)
    \/ \E t \in DOMAIN task : HMove(t)
    \/ \E t \in DOMAIN task : HMark(t)

SpecDup == InitDup /\ [][NextDup]_vars

\* ================================================================ claims

\* C1: across any sequence of polling cycles, the amounts extracted from any
\* one document are added to the customer's budget totals, and to the
\* raw-data log, at most once.
C1_PublishedAtMostOnce ==
    \A f \in Files : pubBudget[f] <= 1 /\ pubRaw[f] <= 1

\* A step taken by task t.
Step(t) == task'[t] # task[t]

HashValues == {"hA", "hB"}

GeminiPcs == {"g_download", "g_check", "g_dup", "g_extract", "g_report", "g_budget",
              "g_raw", "g_archive", "g_mark"}

\* Task t is running the pipeline on content for which an earlier pipeline
\* run of the same customer returned success.
IsDupRun(t) == InPipeline(t) /\ task[t].prior

C3_IsProcessedIffSuccess ==
    \A c \in Customers, h \in HashValues :
        is_processed(ledger, c, h) <=> HasSuccess(ledger, c, h)

\* C4: after a failed attempt on content C for customer X (only a failed
\* ledger record exists), a later run under X on identical bytes is not
\* treated as a duplicate: the dedup check sends a run to the duplicate
\* branch only when a success record exists.
C4_FailedDoesNotBlockRetry ==
    [][\A t \in Tasks :
          (task[t].pc = "s_check" /\ task'[t].pc = "s_dup")
          => HasSuccess(ledger, task[t].cust, task[t].hash)]_vars

\* C5: customer isolation: is_processed(Y, hash) is true only if
\* mark_processed was called for customer Y itself with that hash; a record
\* stored for another customer X never makes it true.
C5_CustomerIsolation ==
    \A c \in Customers, h \in HashValues :
        is_processed(ledger, c, h) => \E st \in ValidStatus : marks[<<c, h, st>>] > 0

\* C5 witness: a worker of one customer has passed the dedup check as "not
\* processed" for a hash that the ledger holds for another customer.
C5_Witness ==
    \E t \in Tasks : \E c \in Customers :
        /\ c # task[t].cust
        /\ task[t].pc = "g_download" /\ task[t].attempt = 0
        /\ is_processed(ledger, c, task[t].hash)
        /\ ~is_processed(ledger, task[t].cust, task[t].hash)

\* C6: in every reachable ledger state each (customer_id, content_hash) key
\* has at most one record with outcome success.
C6_AtMostOneSuccessRecord ==
    \A c \in Customers, h \in HashValues :
        Cardinality({i \in DOMAIN ledger : /\ ledger[i].customer_id = c
                                           /\ ledger[i].file_hash = h
                                           /\ ledger[i].status = "success"}) <= 1

\* C6 witness: mark_processed has been called twice with outcome success for
\* the same key.
C6_Witness ==
    \E c \in Customers, h \in HashValues : marks[<<c, h, "success">>] >= 2

C8_EveryScannedDocumentCounted ==
    \A t \in Tasks :
        task[t].pc \in {"publish", "pub_raw", "pub_budget", "returned", "collected"}
        => task[t].files_processed + task[t].files_failed = Len(task[t].files)

\* C9: run_polling_cycle returns exactly one result per discovered customer;
\* a task that raised is turned into a files_failed=1 result for its customer
\* and the other tasks' results are returned as well.
C9_OneResultPerCustomer ==
    /\ phase = "running"
          => /\ Len(results) = Cardinality({t \in Tasks : task[t].pc = "collected"})
             /\ \A t \in Tasks :
                   (task[t].pc = "collected" /\ task[t].exc = "escaped")
                   => \E i \in DOMAIN results :
                         results[i] = [customer_id |-> task[t].cust, files_processed |-> 0,
                                       files_failed |-> 1, transactions_extracted |-> 0]
    /\ phase = "idle"
          => /\ Len(results) = Len(customers)
             /\ \A c \in Customers :
                   Cardinality({i \in DOMAIN results : results[i].customer_id = c})
                   = Cardinality({i \in DOMAIN customers : customers[i].id = c})

\* C9 witness: a cycle has returned in which one customer's task raised and
\* another customer's task processed a document.
C9_Witness ==
    /\ phase = "idle" /\ Len(results) = Len(customers)
    /\ \E t, u \in Tasks : /\ task[t].pc = "collected" /\ task[t].exc = "escaped"
                          /\ task[u].pc = "collected" /\ task[u].files_processed > 0

\* C10: when a customer's processing fails at the customer level (folder
\* structure, scan or batch publish), the result returned for that customer
\* has a non-zero failed count.
C10_CustomerFailureRecorded ==
    \A t \in Tasks :
        (task[t].pc \in {"returned", "collected"} /\ task[t].exc = "customer")
        => task[t].files_failed > 0

\* C11: if customer discovery fails, run_polling_cycle submits no customer
\* task, processes no document and returns an empty result list.
C11_DiscoveryFailureReturnsEmpty ==
    [][(phase = "idle" /\ faults' # faults)
          => /\ phase' = "idle"
             /\ cycles' = cycles + 1
             /\ results' = <<>>
             /\ \A t \in DOMAIN task' : task'[t].pc = "none"
             /\ drive' = drive
             /\ ledger' = ledger
             /\ sheets' = sheets]_vars

\* C11 witness: a cycle whose discovery failed has returned while a document
\* was waiting in a customer folder.
C11_Witness ==
    /\ phase = "idle" /\ cycles > 0 /\ faults > 0
    /\ customers = <<>> /\ results = <<>>
    /\ \E f \in Files : drive[f].loc = "inbox"

\* C12: during a cycle every discovered customer is submitted as exactly one
\* task, and at every moment at most max_concurrent_customers customers are
\* being processed.
C12_PoolBound ==
    /\ Cardinality({t \in DOMAIN task : Running(t)}) <= max_concurrent_customers
    /\ phase = "running"
          => /\ DOMAIN task = DOMAIN customers
             /\ \A t \in DOMAIN task : /\ task[t].cust = customers[t].id
                                        /\ task[t].folder = customers[t].folder_id

\* C12 witness: max_concurrent_customers customers are being processed and
\* a further customer's task waits in the queue.
C12_Witness ==
    /\ Cardinality({t \in DOMAIN task : Running(t)}) = max_concurrent_customers
    /\ \E t \in DOMAIN task : task[t].pc = "queued"

\* C13: if discovery returns the same customer folder twice, under every
\* interleaving of the two workers the line items of one document content
\* are aggregated at most once: they never sit in the publish batches of two
\* workers.
C13_ContentAggregatedOnce ==
    \A t, u \in DOMAIN task :
        (t # u /\ task[t].cust = task[u].cust)
        => {calculate_hash(drive[f].content) : f \in SrcSet(task[t].all_new)}
              \cap {calculate_hash(drive[f].content) : f \in SrcSet(task[u].all_new)} = {}

\* Positions at which a task calls move_to_duplicates, move_to_archive or
\* move_to_error.
MovePcs == {"s_dup", "g_dup", "g_archive", "s_archive", "h_move"}

\* C14: within one pipeline invocation the document is moved to exactly one
\* of Archive, Error or Duplicates, exactly once: whenever the invocation
\* calls a move, the document is still in the customer folder (it has not
\* been moved before).
C14_MovedOnce ==
    [][\A t \in Tasks :
          (task[t].pc \in MovePcs /\ Step(t)) => drive[Cur(t)].loc = "inbox"]_vars

\* C15: when a pipeline invocation returns or raises, no local scratch file
\* created by it remains: every file in the temp storage belongs to an
\* invocation that is still running.
C15_NoScratchFileLeft ==
    \A path \in scratch : \E t \in Tasks : InPipeline(t) /\ LocalPath(t) = path

C17_DownloadFailureWritesNoRecord ==
    [][\A t \in Tasks :
          (InPipeline(t) /\ ~task[t].local /\ Step(t))
          => ledger' = ledger /\ marks' = marks]_vars

\* C17 witness: the download has failed and the invocation is in its except
\* handler without a local file.
C17_Witness ==
    \E t \in Tasks : task[t].pc = "h_move" /\ ~task[t].local

\* C18: a document whose download failed is left in the customer's source
\* folder, so that the next cycle finds it again.
C18_DownloadFailureLeavesFileInFolder ==
    [][\A t \in Tasks :
          (task[t].pc = "h_move" /\ ~task[t].local /\ Step(t))
          => drive' = drive]_vars

\* C19: when the dedup check finds the content already processed, the
\* invocation does not reach extraction, aggregates and publishes nothing,
\* appends no raw-data rows and leaves the ledger unchanged.
C19_DuplicateBranchIsFrameNeutral ==
    [][\A t \in Tasks :
          (InPipeline(t) /\ task[t].dup /\ Step(t))
          => /\ ledger' = ledger
             /\ sheets' = sheets
             /\ task'[t].pc \notin {"g_extract", "g_report", "g_budget", "g_raw"}
             /\ task'[t].all_new = task[t].all_new
             /\ task'[t].transactions_extracted = task[t].transactions_extracted]_vars

\* C19 witness: after the dedup check found the content processed the move
\* to Duplicates failed, and the handler is about to hand a failed record
\* for the existing key to mark_processed.
C19_Witness ==
    \E t \in Tasks : task[t].dup /\ task[t].pc = "h_mark"

\* C20: for every batch each item is accumulated into the bucket keyed by
\* its category and the month of its own date: the aggregate's month is the
\* month of every item, and a category's total is the sum of the items of
\* that category and month.
C20_BucketPerItemMonth ==
    aggregated.status = "ok"
    => \A i \in DOMAIN batch :
          /\ aggregated.month = batch[i].month
          /\ aggregated.totals[batch[i].category]
                = SumAmounts(SelectSeq(batch, LAMBDA txn : /\ txn.category = batch[i].category
                                                           /\ txn.month = batch[i].month))

\* Sum of the values of a mapping from categories to amounts.
RECURSIVE SumTotals(_)
SumTotals(totals) ==
    IF DOMAIN totals = {} THEN 0
    ELSE LET c == CHOOSE x \in DOMAIN totals : TRUE
         IN totals[c] + SumTotals([d \in DOMAIN totals \ {c} |-> totals[d]])

\* C21: for every non-empty batch each total of the aggregate is the exact
\* sum of the amounts of the items of its bucket (category), every item's
\* bucket is present, and the totals add up to the sum of all input amounts.
C21_TotalsAreExactSums ==
    (batch # <<>> /\ aggregated.status = "ok")
    => /\ DOMAIN aggregated.totals = {batch[i].category : i \in DOMAIN batch}
       /\ \A c \in DOMAIN aggregated.totals :
             aggregated.totals[c]
                = SumAmounts(SelectSeq(batch, LAMBDA txn : txn.category = c))
       /\ SumTotals(aggregated.totals) = SumAmounts(batch)

\* C21 witness: items of -100, -20 and -35 in one bucket gave exactly -155.
C21_Witness ==
    /\ Len(batch) = 3
    /\ {batch[i].amount : i \in DOMAIN batch} = {-100, -20, -35}
    /\ \A i \in DOMAIN batch : batch[i].category = "food" /\ batch[i].month = 5
    /\ aggregated.status = "ok"
    /\ aggregated.totals = [c \in {"food"} |-> -155]

C24_BudgetUpdateIsAdditive ==
    upd.pc = "done"
    => \A c \in SheetRows : \A m \in Months :
          IF m = aggregated.month /\ c \in DOMAIN aggregated.totals
          THEN parse_amount(cells[c][m])
                  = parse_amount(upd.before[c][m]) + aggregated.totals[c]
          ELSE cells[c][m] = upd.before[c][m]

\* A transient error: one of the retryable set of the decorated function
\* that is not an HTTP client error.
Transient(e) ==
    /\ e.class \in rw.retryable
    /\ ~(e.class = "HttpError" /\ e.status \in 400..499 /\ e.status # 429)

\* C25: a wrapped function that raised a transient error on every call has
\* been invoked exactly max_retries + 1 times when the wrapper raises, and
\* the wrapper raises the last error; it is never invoked more often.
C25_ExhaustsAllAttempts ==
    /\ rw.calls <= rw.max_retries + 1
    /\ (rw.pc = "raised" /\ \A i \in DOMAIN rw.errs : Transient(rw.errs[i]))
       => /\ rw.calls = rw.max_retries + 1
          /\ Len(rw.errs) = rw.calls
          /\ rw.sleeps = rw.max_retries
          /\ rw.out = rw.errs[Len(rw.errs)]

\* C25 witness: with max_retries = MaxRetries the wrapper gave up after
\* MaxRetries + 1 calls that all raised a transient error.
C25_Witness ==
    /\ rw.pc = "raised"
    /\ rw.max_retries = MaxRetries
    /\ rw.calls = MaxRetries + 1
    /\ \A i \in DOMAIN rw.errs : Transient(rw.errs[i])

\* C26: a wrapped function that raises an error outside the retryable set
\* is invoked once: the error leaves the wrapper on that attempt, with no
\* wait and no retry.
C26_NonRetryablePropagatesAtOnce ==
    (rw.errs # <<>> /\ rw.errs[1].class \notin rw.retryable)
    => /\ rw.pc = "raised"
       /\ rw.calls = 1
       /\ rw.sleeps = 0
       /\ rw.out = rw.errs[1]

\* C26 witness: a ValueError left the wrapper of a function with retries
\* to spare after one call.
C26_Witness ==
    /\ rw.pc = "raised"
    /\ rw.max_retries > 0
    /\ rw.calls = 1
    /\ rw.out = Err("ValueError", 0)

\* C27: an external call that fails with an HTTP client error (4xx other
\* than 429) is attempted once and the error propagates immediately.
C27_ClientErrorNotRetried ==
    (rw.remote # <<>> /\ rw.remote[1].class = "HttpError"
        /\ rw.remote[1].status \in 400..499 /\ rw.remote[1].status # 429)
    => /\ rw.pc = "raised"
       /\ rw.calls = 1
       /\ rw.sleeps = 0

\* C28: after mark_processed was called for a key, the table holds a single
\* record for that key, and it has the file name, outcome and timestamp of
\* the latest call for the key.
C28_LastWriteWins ==
    \A i \in DOMAIN reg.calls :
       LET call == reg.calls[i]
           same(r) == r.customer_id = call.customer_id /\ r.file_hash = call.file_hash
       IN (\A j \in DOMAIN reg.calls : j > i => ~same(reg.calls[j]))
          => /\ Cardinality({k \in DOMAIN ledger : same(ledger[k])}) = 1
             /\ \A k \in DOMAIN ledger :
                   same(ledger[k]) => /\ ledger[k].file_name = call.file_name
                                      /\ ledger[k].status = call.status
                                      /\ reg.stamps[k] = call.processed_at

\* C30: a get_customer_history(c) query returns one entry per ledger record
\* of customer c and no other, the more recently marked record first.
C30_HistoryMostRecentFirst ==
    [][reg'.out # reg.out
       => LET rows == reg'.out.rows
              c == reg'.out.customer_id
          IN /\ {rows[j].id : j \in DOMAIN rows}
                   = {ledger[i].id : i \in {k \in DOMAIN ledger : ledger[k].customer_id = c}}
             /\ Len(rows) = Cardinality({k \in DOMAIN ledger : ledger[k].customer_id = c})
             /\ \A j, k \in DOMAIN rows : j < k => rows[j].id > rows[k].id]_vars

\* C29 as stated: once a shutdown signal has been received no new polling
\* cycle is started.
C29_NoCycleStartsAfterSignal ==
    [][svc.shutdown_requested => cycles' = cycles]_vars

\* C29 as it holds: once a shutdown signal has been received the loop
\* enters no further iteration, so at most the cycle of the iteration
\* already entered still starts; a running cycle completes, the wait is
\* left without sleeping, and the loop test ends the loop.
C29_NoIterationAfterSignal ==
    [][(svc.shutdown_requested /\ svc' # svc)
       => /\ svc'.shutdown_requested
          /\ svc'.cycle_count = svc.cycle_count
          /\ svc.pc = "cycle" => svc'.pc = "wait"
          /\ svc.pc = "wait" => (svc'.pc = "test" /\ svc'.waited = svc.waited)
          /\ svc.pc = "test" => svc'.pc = "stopped"]_vars

\* C29 witness: the signal arrived during the first iteration; its cycle
\* completed, the wait was left without sleeping and the loop has exited.
C29_Witness ==
    /\ svc.pc = "stopped"
    /\ svc.shutdown_requested
    /\ svc.cycle_count = 1
    /\ Len(svc.outcomes) = 1
    /\ svc.waited = 0

\* C31: clear_cache(customer_id) deletes exactly the ledger records of that
\* customer and returns how many were deleted, every other customer's records
\* unchanged; clear_cache with no customer deletes all records and returns
\* their count.
C31_ClearDeletesExactlyThatCustomer ==
    [][\A c \in ClearArgs :
          ClearCache(c) =>
             LET mine == {i \in DOMAIN ledger : c # None /\ ledger[i].customer_id = c}
                 all == DOMAIN ledger
                 gone == IF c = None THEN all ELSE mine
             IN /\ ledger' = rows_at(ledger, all \ gone)
                /\ reg'.cleared.deleted = Cardinality(gone)]_vars

\* A success row for customer c and hash h is inserted by this step.
SuccessWritten(c, h) ==
    /\ Len(ledger') = Len(ledger) + 1
    /\ ledger'[Len(ledger')].customer_id = c
    /\ ledger'[Len(ledger')].file_hash = h
    /\ ledger'[Len(ledger')].status = "success"

\* C32: on the success path extraction completes, then the document is moved
\* to Archive, then the success ledger record is written, then the local
\* scratch file is deleted: when an invocation writes a success record its
\* line items are extracted, its document is in Archive (the move did not
\* fail) and its clean-up has not run yet; the clean-up has run when the
\* invocation has returned success.
C32_SuccessPathOrder ==
    [][\A t \in Tasks :
          /\ (Step(t) /\ InPipeline(t) /\ SuccessWritten(task[t].cust, task[t].hash))
              => /\ ~no_transactions(task[t].txns)
                 /\ drive[Cur(t)].loc = "Archive"
                 /\ drive'[Cur(t)].loc = "Archive"
                 /\ task[t].local
          /\ (Step(t) /\ InPipeline(t) /\ task'[t].files_processed > task[t].files_processed)
              => /\ ~task'[t].local
                 /\ LocalPath(t) \notin scratch']_vars

\* C32 witness: an invocation has returned success; its document is in
\* Archive, its success record in the ledger and its scratch file deleted.
C32_Witness ==
    \E t \in Tasks :
       /\ task[t].files_processed = 1
       /\ task[t].idx = 2
       /\ task[t].all_new # <<>>
       /\ drive[task[t].files[1]].loc = "Archive"
       /\ HasSuccess(ledger, task[t].cust, calculate_hash(drive[task[t].files[1]].content))
       /\ <<task[t].cust, drive[task[t].files[1]].name>> \notin scratch

\* C33: within one cycle the aggregate publish (budget update and raw-data
\* append) for a customer is performed after all of that customer's documents
\* have been processed, over the union of the line items of the cycle's
\* successful documents, and not once per document: a step of a customer
\* task that changes the budget totals or the raw-data log is taken when the
\* document loop is over, and adds the items collected from the cycle's
\* successful documents.
C33_PublishedOnceAfterAllDocuments ==
    [][\A t \in Tasks :
          (Step(t) /\ (budget' # budget \/ raw' # raw))
          => /\ task[t].idx > Len(task[t].files)
             /\ budget'[task[t].cust] \in {budget[task[t].cust],
                                           budget[task[t].cust] + SumAmounts(task[t].all_new)}
             /\ raw'[task[t].cust] \in {raw[task[t].cust],
                                        raw[task[t].cust] + Len(task[t].all_new)}]_vars

\* Positions at which a customer worker is inside a call on a Drive client,
\* and on a Sheets client.
DrivePcs == {"ensure", "scan", "s_download", "s_dup", "s_archive", "h_move",
             "g_download", "g_dup", "g_archive"}
SheetsPcs == {"report", "publish", "pub_raw", "pub_budget", "g_report", "g_budget", "g_raw"}

\* The client object worker t calls at its position: inside process_pdf the
\* drive_poller and sheets_generator of the orchestrator's one GeminiProcessor
\* (owner 0), elsewhere the worker's own thread_drive and thread_sheets
\* (owner t).
client_owner(t) == IF task[t].pc \in GeminiPcs THEN 0 ELSE t

\* C34: no Drive client and no Sheets client is used by two concurrently
\* running customer workers: two workers that are inside a Drive call, or
\* inside a Sheets call, at the same moment are calling different client
\* objects.
C34_ClientsNotSharedBetweenWorkers ==
    \A t, u \in Tasks :
        t # u =>
           /\ (task[t].pc \in DrivePcs /\ task[u].pc \in DrivePcs)
                 => client_owner(t) # client_owner(u)
           /\ (task[t].pc \in SheetsPcs /\ task[u].pc \in SheetsPcs)
                 => client_owner(t) # client_owner(u)

\* C35: every pipeline attempt that computed a content hash and did not take
\* the duplicate branch ends with a ledger record for (customer, hash) whose
\* outcome equals the outcome of the attempt: success when the attempt
\* returned success with the document archived, failed otherwise.  Stated
\* for the attempts that return to the document loop (no exception left the
\* pipeline).
C35_LedgerRecordMatchesOutcome ==
    [][\A t \in Tasks :
          (/\ Step(t) /\ InPipeline(t)
           /\ task'[t].pc = "loop"
           /\ task[t].hash # NoHash
           /\ ~task[t].dup)
          => LET rows == {i \in DOMAIN ledger' :
                            /\ ledger'[i].customer_id = task[t].cust
                            /\ ledger'[i].file_hash = task[t].hash}
                 ok == /\ task'[t].files_processed > task[t].files_processed
                       /\ drive'[Cur(t)].loc = "Archive"
             IN /\ rows # {}
                /\ \A i \in rows :
                      ledger'[i].status = IF ok THEN "success" ELSE "error"]_vars

\* C36: at the end of any cycle, if the ledger holds a success record for
\* (X, h), the line items extracted from that document have been added to
\* X's budget totals and to X's raw-data log: a document of X with content
\* hash h has been published to both.
C36_SuccessRecordImpliesPublished ==
    phase = "idle" =>
       \A c \in Customers, h \in HashValues :
          HasSuccess(ledger, c, h)
          => \E f \in Files : /\ drive[f].loc # "absent"
                              /\ FolderName(drive[f].folder) = c
                              /\ calculate_hash(drive[f].content) = h
                              /\ pubBudget[f] >= 1
                              /\ pubRaw[f] >= 1

\* C37: when update_budget failed transiently after some category cells were
\* written and was run again by the retry wrapper, then once it has finally
\* succeeded the cell of every category of the delta has been increased by
\* that category's delta exactly once.
C37_RetriedUpdateAddsOnce ==
    (upd.pc = "done" /\ upd.attempt > 0)
    => \A c \in SheetRows \cap DOMAIN aggregated.totals :
          parse_amount(cells[c][aggregated.month])
             = parse_amount(upd.before[c][aggregated.month]) + aggregated.totals[c]

\* C38: for one logical external operation the underlying remote call is
\* attempted at most max_retries + 1 times in total, also when a
\* retry-wrapped operation calls another retry-wrapped operation (the larger
\* of the two limits is taken).
C38_RemoteCallsBounded ==
    rw.remote_calls <= (IF rw.max_retries >= rw.inner.max_retries
                        THEN rw.max_retries ELSE rw.inner.max_retries) + 1

\* The cycle that ended last raised an exception.
LastCycleRaised ==
    Len(svc.outcomes) > 0 /\ svc.outcomes[Len(svc.outcomes)] = "raised"

\* C39: an exception raised by one polling cycle is caught by the polling
\* loop: the loop goes to its wait, waits the whole interval and starts the
\* next cycle, unless shutdown was requested.  Every running cycle is
\* followed by the next cycle or by a shutdown request.
C39_RaisedCycleIsFollowedByNext ==
    /\ [][/\ (svc.pc = "cycle" /\ svc'.pc # "cycle")
              => (svc'.pc = "wait" /\ svc'.waited = 0)
          /\ (LastCycleRaised /\ ~svc.shutdown_requested /\ svc.pc = "wait" /\ svc'.pc # "wait")
              => (svc'.pc = "test" /\ svc.waited = WaitSeconds)
          /\ (LastCycleRaised /\ ~svc.shutdown_requested /\ svc.pc = "test" /\ svc'.pc # "test")
              => (svc'.pc = "body" /\ svc'.cycle_count = svc.cycle_count + 1)]_vars
    /\ \A n \in 1..(MaxIterations - 1) :
          (svc.pc = "cycle" /\ svc.cycle_count = n)
             ~> (svc.shutdown_requested \/ (svc.pc = "cycle" /\ svc.cycle_count = n + 1))

\* C39 witness: the first cycle raised, no shutdown was requested, the loop
\* waited the whole interval and the second cycle is running.
C39_Witness ==
    /\ svc.pc = "cycle"
    /\ svc.cycle_count = 2
    /\ svc.outcomes = <<"raised">>
    /\ svc.waited = WaitSeconds
    /\ ~svc.shutdown_requested

\* C40: every pipeline invocation eventually reaches a terminal state
\* (_process_single_file has returned, or an exception has left it), provided
\* each external call returns or raises, also while the extraction service
\* keeps reporting the uploaded file as still processing.
C40_InvocationTerminates ==
    <>(task[1].pc \in {"loop", "returned"})

====
